---------------------------- MODULE Spec2Model ----------------------------
(***************************************************************************)
(* VocalBridge (Ai-translate-Video-02): the processing state machine of    *)
(* src/App.tsx and the request layer of src/services/geminiService.ts.     *)
(*                                                                         *)
(* Texts are sequences of one-character strings.  An optional value (a     *)
(* JavaScript value that may be null) is a sequence of length at most one: *)
(* Null is <<>>, Some(x) is <<x>>.  An error message is a sequence of      *)
(* tokens, and String.includes(needle) is membership of the token.         *)
(***************************************************************************)
EXTENDS Integers, Sequences, FiniteSets, TLC

VARIABLES
    \* ---- App.tsx: useState ----
    step,               \* ProcessingStep
    progress,           \* counted in halves of a percent: 200 is 100 %
    videoUrl,           \* Null or Some(object URL of a file)
    videoBase64,        \* Null or Some(file)
    videoMimeType,      \* Null or Some(type)
    videoDuration,      \* seconds
    fileName,           \* Null or Some(name)
    translatedText,     \* text
    errorMessage,       \* Null or Some(message)
    isRegenerating,
    isHooking,
    isIsanHooking,
    hasApiKey,
    currentAudioBuffer, \* Null or Some([by, audio]): the audio and the flow it
                        \* was returned to
    settings,           \* VoiceSettings
    \* ---- App.tsx: useRef ----
    abortRef,           \* processingAbortController.current: 0 or a flow's controller
    \* ---- the event loop ----
    flows,              \* the async handler invocations: startProcessing,
                        \* applyAIHook, applyIsanHook, refreshVoice
    nextFlow,           \* the next free flow
    lastSynth,          \* the flow that started the latest synthesis request
                        \* of a flow not cancelled by then, or 0
    pendingReads,       \* the FileReaders that have not fired onload yet
    pendingMeta,        \* the temp videos that have not fired onloadedmetadata
    \* ---- SpeechSpec ----
    speech,             \* the one top-level generateThaiSpeech call
    cleanIn,            \* the text handed to it
    lastOutcome,        \* what the API did to the latest request (history)
    \* ---- CleanSpec ----
    cleaned,            \* Null or Some(cleanTextForSpeech(cleanIn))
    recleaned,          \* Null or Some(text): the cleaned text cleaned again
    \* ---- AudioSpec ----
    pcmData,            \* Null or Some(bytes): the Uint8Array handed to decodePCMData
    audioBuffer,        \* Null or Some(AudioBuffer): the buffer handed to audioBufferToWav
    wav,                \* the invocation of audioBufferToWav
    \* ---- UrlSpec ----
    videoUrlInput,      \* the text of the URL field
    isFetchingUrl,
    urlFetch,           \* the invocation of handleUrlFetch
    imports,            \* the URL imports started so far
    \* ---- PlaySpec: the preview of the dubbed audio ----
    audioSources,       \* the AudioBufferSourceNodes created by playTranslation
    audioSourceRef,     \* 0 (null) or the index of a source
    isPlaying,
    audioContextState,  \* "suspended" or "running"
    resumePending,      \* calls of playTranslation waiting in 'await resume()'
    \* ---- ExportSpec: the export of the dubbed video ----
    isRecording,
    exportPc            \* where the invocation of downloadVideo stands

videoVars == <<videoUrl, videoBase64, videoMimeType, videoDuration, fileName,
               pendingReads, pendingMeta>>
flagVars == <<isRegenerating, isHooking, isIsanHooking>>
flowVars == <<abortRef, flows, nextFlow, lastSynth>>
appVars == <<step, progress, videoVars, translatedText, errorMessage, flagVars, hasApiKey,
             currentAudioBuffer, settings, flowVars>>
cleanVars == <<cleaned, recleaned>>
speechVars == <<speech, cleanIn, lastOutcome, cleanVars>>
audioVars == <<pcmData, audioBuffer, wav>>
urlVars == <<videoUrlInput, isFetchingUrl, urlFetch, imports>>
playVars == <<audioSources, audioSourceRef, isPlaying, audioContextState, resumePending>>
exportVars == <<isRecording, exportPc>>
mediaVars == <<playVars, exportVars>>
vars == <<appVars, speechVars, audioVars, urlVars, mediaVars>>

Null == <<>>
Some(x) == <<x>>

\* no call of cleanTextForSpeech on its own is under way
CleanIdle == cleaned = Null /\ recleaned = Null

\* no invocation of handleUrlFetch has been made
NoFetch ==
    [pc |-> "idle", input |-> <<>>, api |-> 0, endpoint |-> 0, dataUrl |-> <<>>,
     before |-> <<>>]
\* nothing has been played and the AudioContext, created outside a user
\* gesture, has not been resumed
PlayIdle ==
    /\ audioSources = <<>>
    /\ audioSourceRef = 0
    /\ isPlaying = FALSE
    /\ audioContextState = "suspended"
    /\ resumePending = 0
ExportIdle == isRecording = FALSE /\ exportPc = "idle"
MediaIdle == PlayIdle /\ ExportIdle

UrlIdle ==
    /\ videoUrlInput = <<>>
    /\ isFetchingUrl = FALSE
    /\ urlFetch = NoFetch
    /\ imports = 0

(***************************************************************************)
(* Bounds of the model.                                                    *)
(***************************************************************************)
MaxLen == 3          \* longest input text of the pure-function specifications
LongMargin == 5      \* the long input texts start this far below the TTS limit

(***************************************************************************)
(* Characters.  One representative or more of every class the regular      *)
(* expressions of cleanTextForSpeech distinguish.                          *)
(***************************************************************************)
\* the grave accent is written as a token: SANY does not read it in a string
Backtick == "<grave>"
MarkdownChars == {"*", "_", "#", Backtick, "~"}
BracketChars == {"[", "]", "(", ")"}
QuoteChars == {"\"", "'"}
WhitespaceChars == {" ", "\t", "\n", "\r", "\f"}
PlainChars == {"a", "."}

\* the alphabet the bounded inputs are drawn from
Alphabet == {"a", "*", "[", ")", "'", " ", "\n"}

TextsUpTo(n) == UNION {[1..k -> Alphabet] : k \in 0..n}

TtsMaxLen == 800
TtsKeepLen == 797
\* A plausible slip: the mark of the cut written in brackets, which the
\* next cleaning turns into spaces.
EllipsisBracketed == <<"[", ".", "]">>
Ellipsis == <<".", ".", ".">>

(***************************************************************************)
(* cleanTextForSpeech, one definition per String method of the chain.      *)
(***************************************************************************)
IsMarkdown(c) == c \in MarkdownChars
IsBracket(c) == c \in BracketChars
IsQuote(c) == c \in QuoteChars
IsSpace(c) == c \in WhitespaceChars

\* .replace(/[*_#<grave>~]/g, '')
RemoveMarkdown(t) == SelectSeq(t, LAMBDA c : ~IsMarkdown(c))

\* .replace(/[ [ ] ( ) ]/g, ' '): each bracket becomes a space
BracketsToSpace(t) == [i \in 1..Len(t) |-> IF IsBracket(t[i]) THEN " " ELSE t[i]]

\* .replace(/[double quote, single quote]/g, '')
RemoveQuotes(t) == SelectSeq(t, LAMBDA c : ~IsQuote(c))

\* .replace(/\s+/g, ' '): every maximal run of whitespace becomes one space
CollapseWhitespace(t) ==
    LET \* the positions that end a run of whitespace or hold another character
        kept == SelectSeq([i \in 1..Len(t) |-> i],
                          LAMBDA i : ~(IsSpace(t[i]) /\ i < Len(t) /\ IsSpace(t[i + 1])))
    IN [k \in 1..Len(kept) |-> IF IsSpace(t[kept[k]]) THEN " " ELSE t[kept[k]]]

\* .trim()
RECURSIVE TrimStart(_)
TrimStart(t) ==
    IF t # <<>> /\ IsSpace(Head(t)) THEN TrimStart(Tail(t)) ELSE t

RECURSIVE TrimEnd(_)
TrimEnd(t) ==
    IF t # <<>> /\ IsSpace(t[Len(t)]) THEN TrimEnd(SubSeq(t, 1, Len(t) - 1)) ELSE t

Trim(t) == TrimEnd(TrimStart(t))

\* A plausible slip: a text of exactly the limit is cut as well.
TruncateAtLimit(t) ==
    IF Len(t) >= TtsMaxLen THEN SubSeq(t, 1, TtsKeepLen) \o Ellipsis ELSE t

\* if (cleaned.length > 800) cleaned = cleaned.substring(0, 797) + "..."
Truncate(t) ==
    IF Len(t) > TtsMaxLen THEN SubSeq(t, 1, TtsKeepLen) \o Ellipsis ELSE t

\* A plausible slip: whitespace collapsed and trimmed before the brackets and
\* quotes are dealt with.
cleanTextForSpeechCollapseFirst(text) ==
    IF text = <<>> THEN <<>>
    ELSE Truncate(RemoveQuotes(BracketsToSpace(
             Trim(CollapseWhitespace(RemoveMarkdown(text))))))

cleanTextForSpeech(text) ==
    IF text = <<>> THEN <<>>
    ELSE Truncate(Trim(CollapseWhitespace(
             RemoveQuotes(BracketsToSpace(RemoveMarkdown(text))))))

(***************************************************************************)
(* CleanSpec: cleanTextForSpeech on its own, on every bounded text and on  *)
(* texts about as long as the limit for speech synthesis; then on its own  *)
(* result, as generateThaiSpeech does with the text a retry hands it.      *)
(***************************************************************************)
\* n plain characters
Fill(n) == [i \in 1..n |-> "a"]

\* what follows the plain characters of a long text
LongTails ==
    {<<>>, <<" ">>, <<"*">>, <<"'", "a">>, <<" ", " ">>, <<"[", "a">>, <<"a", "\n">>,
     <<" ", "a", "a", "a", "a">>, <<"*", "a", "a", "a", "a">>,
     <<"a", " ", ")", "a", "a">>}

LongTexts ==
    {Fill(n) \o tail : n \in (TtsMaxLen - LongMargin)..(TtsMaxLen + 1),
                       tail \in LongTails}

CleanInputs == TextsUpTo(MaxLen) \cup LongTexts

\* cleanTextForSpeech(text) called by translateVideoContent or
\* generateThaiSpeech
CleanFirst ==
    /\ cleaned = Null
    /\ cleaned' = Some(cleanTextForSpeech(cleanIn))
    /\ UNCHANGED <<recleaned, speech, cleanIn, lastOutcome, appVars, audioVars, urlVars, mediaVars>>

\* cleanTextForSpeech(text) at line 125 of a retry, which was handed the
\* cleaned text (lines 160, 172)
CleanRetry ==
    /\ cleaned # Null /\ recleaned = Null
    /\ recleaned' = Some(cleanTextForSpeech(cleaned[1]))
    /\ UNCHANGED <<cleaned, speech, cleanIn, lastOutcome, appVars, audioVars, urlVars, mediaVars>>

CleanNext == CleanFirst \/ CleanRetry

(***************************************************************************)
(* Voice settings (types.ts) and the state App constructs them with.       *)
(***************************************************************************)
Moods == {"natural", "isan"}

DefaultSettings ==
    [mode |-> "auto", gender |-> "female", mood |-> "natural",
     speed |-> "normal", intensity |-> "normal"]

SettingsSet == {[DefaultSettings EXCEPT !.mood = m] : m \in Moods}

\* durations of the videos of the model, in seconds; 0 is the initial state
Durations == {0, 12}

(***************************************************************************)
(* Errors and API outcomes.                                                *)
(***************************************************************************)
MsgNoText == <<"no text for speech">>
MsgNoAudio == <<"API sent no audio data">>
MsgSuspended(finishReason) == <<"speech generation suspended", finishReason>>
MsgEntityNotFound == <<"Requested entity was not found">>

\* messages of the errors the SDK call may throw; <<>> is an empty message
ApiMessages == {<<>>, <<"500 internal">>, <<"429">>, <<"quota">>, MsgEntityNotFound}

\* No request of this program is given an abort signal, so no rejection is
\* an AbortError.
Error(message) == [name |-> "Error", message |-> message]

\* message.includes(needle)
Includes(message, needle) == \E i \in 1..Len(message) : message[i] = needle

FinishReasons == {"", "STOP", "SAFETY"}

\* what one generateContent call of the speech model may do
Outcomes ==
    {[throws |-> TRUE, message |-> m, finishReason |-> "", hasAudio |-> FALSE] :
        m \in ApiMessages}
    \cup
    {[throws |-> FALSE, message |-> <<>>, finishReason |-> f, hasAudio |-> a] :
        f \in FinishReasons, a \in BOOLEAN}

(***************************************************************************)
(* generateThaiSpeech.  A call in progress is a record:                    *)
(*   phase        "delay" (backoff timer running), "request" (request in   *)
(*                flight), "resolved" or "rejected" (the promise returned  *)
(*                to the top-level caller has settled)                     *)
(*   retryAttempt the retryAttempt of the innermost invocation             *)
(*   sites        for each enclosing invocation, whether its nested call   *)
(*                was made in its try block or in its catch block          *)
(*   log          the waits and requests so far, in order                  *)
(*   result       Some(audio) or Some(error) once settled                  *)
(***************************************************************************)
MaxRetryAttempt == 2
BackoffBaseMs == 1000

\* A plausible slip: the backoff grows linearly.
BackoffLinear(retryAttempt) == retryAttempt * BackoffBaseMs

\* Math.pow(2, retryAttempt) * 1000
Backoff(retryAttempt) == (2 ^ retryAttempt) * BackoffBaseMs

WaitEvent(call, ms) ==
    [kind |-> "wait", attempt |-> call.retryAttempt, ms |-> ms,
     text |-> call.cleanedText, settings |-> call.settings, duration |-> call.duration]

RequestEvent(call) ==
    [kind |-> "request", attempt |-> call.retryAttempt, ms |-> 0,
     text |-> call.cleanedText, settings |-> call.settings, duration |-> call.duration]

NoCall ==
    [phase |-> "none", retryAttempt |-> 0, cleanedText |-> <<>>,
     settings |-> DefaultSettings, duration |-> 0, sites |-> <<>>, log |-> <<>>,
     result |-> Null]

\* the bytes the API returned for the request in flight
Audio(call) ==
    [text |-> call.cleanedText, settings |-> call.settings, duration |-> call.duration]

\* await ai.models.generateContent(...)
IssueRequest(call) ==
    [call EXCEPT !.phase = "request", !.log = Append(@, RequestEvent(call))]

\* return decodeBase64(base64Audio)
Resolve(call) ==
    [call EXCEPT !.phase = "resolved", !.sites = <<>>, !.result = Some(Audio(call))]

RECURSIVE generateThaiSpeech(_, _, _, _, _, _)

\* A plausible slip: 'return await generateThaiSpeech(...)' in the try block,
\* which lets the catch block of the enclosing invocation see the failure of
\* the nested one and retry it once more.
RECURSIVE PropagateAwaited(_, _)
PropagateAwaited(call, error) ==
    IF call.sites = <<>>
    THEN [call EXCEPT !.phase = "rejected", !.result = Some(error)]
    ELSE LET outer == Len(call.sites) - 1
             rest == SubSeq(call.sites, 1, outer)
         IN IF call.sites[Len(call.sites)] = "try"
               /\ (Includes(error.message, "429") \/ Includes(error.message, "quota"))
               /\ outer < MaxRetryAttempt
            THEN generateThaiSpeech(call.cleanedText, call.settings, call.duration,
                                    outer + 1, Append(rest, "catch"), call.log)
            ELSE PropagateAwaited([call EXCEPT !.sites = rest,
                                               !.retryAttempt = outer], error)

\* A rejection leaving an invocation.  Both retries are 'return
\* generateThaiSpeech(...)' without await: the promise of the nested call is
\* what the enclosing invocation returns, so no enclosing try/catch sees it.
Propagate(call, error) ==
    [call EXCEPT !.phase = "rejected", !.sites = <<>>, !.result = Some(error)]

\* A plausible slip: no test for an empty cleaned text.
generateThaiSpeechNoEmptyTest(text, settingsToUse, duration, retryAttempt, sites, log) ==
    LET cleanedText == cleanTextForSpeech(text)
        call == [phase |-> "request", retryAttempt |-> retryAttempt,
                 cleanedText |-> cleanedText, settings |-> settingsToUse,
                 duration |-> duration, sites |-> sites, log |-> log,
                 result |-> Null]
    IN IF retryAttempt > 0
       THEN [call EXCEPT !.phase = "delay",
                         !.log = Append(@, WaitEvent(call, Backoff(retryAttempt)))]
       ELSE IssueRequest(call)

\* lines 125-130, then the request of lines 132-156
generateThaiSpeech(text, settingsToUse, duration, retryAttempt, sites, log) ==
    LET cleanedText == cleanTextForSpeech(text)
        call == [phase |-> "request", retryAttempt |-> retryAttempt,
                 cleanedText |-> cleanedText, settings |-> settingsToUse,
                 duration |-> duration, sites |-> sites, log |-> log,
                 result |-> Null]
    IN IF cleanedText = <<>>
       THEN Propagate(call, Error(MsgNoText))
       ELSE IF retryAttempt > 0
            THEN [call EXCEPT !.phase = "delay",
                              !.log = Append(@, WaitEvent(call, Backoff(retryAttempt)))]
            ELSE IssueRequest(call)

\* the timer of delay() fires: the invocation goes on to its request
DelayElapsed(call) == IssueRequest(call)

\* A plausible slip: server errors are taken for transient and retried too.
IsRateLimitOrServerError(error) ==
    \/ Includes(error.message, "429") \/ Includes(error.message, "quota")
    \/ Includes(error.message, "500 internal")

\* error.message includes '429' or 'quota'
IsRateLimit(error) ==
    Includes(error.message, "429") \/ Includes(error.message, "quota")

\* A plausible slip: the retry limit of the catch block off by one.
CatchRetryOnce(call, error) ==
    IF IsRateLimit(error) /\ call.retryAttempt < MaxRetryAttempt - 1
    THEN generateThaiSpeech(call.cleanedText, call.settings, call.duration,
                            call.retryAttempt + 1, Append(call.sites, "catch"), call.log)
    ELSE Propagate(call, error)

\* A plausible slip: the catch block retries a rate-limit failure without a
\* limit.  The log restarts with every retry, so that the endless retry is a
\* cycle of finitely many states.
CatchRetryUnbounded(call, error) ==
    IF IsRateLimit(error)
    THEN generateThaiSpeech(call.cleanedText, call.settings, call.duration,
                            MaxRetryAttempt, <<"catch">>, <<>>)
    ELSE Propagate(call, error)

\* the catch block, lines 170-175
Catch(call, error) ==
    IF IsRateLimit(error) /\ call.retryAttempt < MaxRetryAttempt
    THEN generateThaiSpeech(call.cleanedText, call.settings, call.duration,
                            call.retryAttempt + 1, Append(call.sites, "catch"), call.log)
    ELSE Propagate(call, error)

\* the try block after the response, lines 158-169
HandleResponse(call, o) ==
    IF o.throws THEN Catch(call, Error(o.message))
    ELSE IF o.finishReason # "" /\ o.finishReason # "STOP"
         THEN IF call.retryAttempt < MaxRetryAttempt
              THEN generateThaiSpeech(call.cleanedText, call.settings, call.duration,
                                      call.retryAttempt + 1, Append(call.sites, "try"),
                                      call.log)
              ELSE Catch(call, Error(MsgSuspended(o.finishReason)))
         ELSE IF ~o.hasAudio
              THEN Catch(call, Error(MsgNoAudio))
              ELSE Resolve(call)

Requests(call) == SelectSeq(call.log, LAMBDA e : e.kind = "request")
Waits(call) == SelectSeq(call.log, LAMBDA e : e.kind = "wait")
Settled(call) == call.phase \in {"resolved", "rejected"}

(***************************************************************************)
(* App.tsx: state, files and messages.                                     *)
(***************************************************************************)
MaxFlows == 3          \* async handler invocations started in one behaviour
MaxPendingReads == 1   \* file loads (reader and metadata) in progress at once

IDLE == "IDLE"
UPLOADING == "UPLOADING"
ANALYZING == "ANALYZING"
TRANSLATING == "TRANSLATING"
GENERATING_VOICE == "GENERATING_VOICE"
COMPLETED == "COMPLETED"
ERROR == "ERROR"
ProcessingStep ==
    {IDLE, UPLOADING, ANALYZING, TRANSLATING, GENERATING_VOICE, COMPLETED, ERROR}

\* 50 * 1024 * 1024
MaxFileBytes == 50 * 1024 * 1024

\* the files the user may pick: one of exactly the limit, one a byte above it
Files ==
    {[name |-> "limit.mov", size |-> MaxFileBytes, type |-> "video/quicktime",
      duration |-> 30],
     [name |-> "big.mp4", size |-> MaxFileBytes + 1, type |-> "video/mp4",
      duration |-> 12]}

\* URL.createObjectURL(file)
ObjectUrl(file) == <<"blob:", file.name>>

MsgFileTooLarge == <<"file too large (limit 50MB)">>
MsgSelectVideo == <<"select a video file first">>
MsgProcessingFailed == <<"processing failed">>
MsgHookFailed == <<"cannot create hook">>
MsgIsanHookFailed == <<"cannot create Isan hook">>
MsgInvalidApiKey == <<"selected API key is invalid">>
MsgVoiceFailed == <<"cannot regenerate voice">>

\* e.message || fallback
MessageOr(error, fallback) == IF error.message # <<>> THEN error.message ELSE fallback

\* response.text of the translation and of the hook requests; <<>> is no text
ApiTexts == {<<>>, <<"'", "a">>}
HookTexts == {<<>>, <<"b", " ">>}
\* what the user may type into the textarea
EditTexts == {<<"c", "*">>}
\* messages of the errors the translation and hook requests may throw
AppApiMessages == {<<>>, <<"500 internal">>}
\* what a speech request of the pipeline may do: audio, a rate-limit error,
\* the invalid-key error, an error without a message (SpeechSpec covers the
\* other outcomes of a request)
AppOutcomes ==
    {o \in Outcomes :
        \/ o.throws /\ o.message \in {<<>>, <<"429">>, MsgEntityNotFound}
        \/ ~o.throws /\ o.finishReason = "STOP" /\ o.hasAudio}

FreeFlow ==
    [kind |-> "none", pc |-> "free", hasController |-> FALSE, aborted |-> FALSE,
     call |-> NoCall, video |-> Null, text |-> <<>>,
     settings |-> DefaultSettings, duration |-> 0]

\* a handler invocation that has returned: nothing of it is read again
DoneFlow(fl) == [FreeFlow EXCEPT !.pc = "done"]

\* controller.abort(); the signal of a handler that has returned is never read
AbortNoSignal(fl) == fl

Abort(fl) == IF fl.pc = "done" THEN fl ELSE [fl EXCEPT !.aborted = TRUE]

FlowIds == 1..MaxFlows
InFlight(f) == flows[f].pc \notin {"free", "done"}
\* A plausible slip: the signal of the shared reference
\* processingAbortController.current is read, not the run's own.
AbortedSharedRef(fl) ==
    fl.hasController /\ abortRef # 0 /\ flows[abortRef].aborted

\* controller.signal.aborted; a refreshVoice started by the button has no controller
Aborted(fl) == fl.hasController /\ fl.aborted
\* a promise has settled and its continuation (a microtask) has not run yet:
\* it runs before any other event is handled
MicrotaskPending == \E f \in FlowIds : flows[f].pc = "voice" /\ Settled(flows[f].call)

\* progress is counted in halves of a percent, the step of the interval
Percent(n) == 2 * n

\* The effect of lines 57-76, which runs when a render has changed step: it
\* sets progress to 100 on COMPLETED and to 0 on IDLE and ERROR, and in the
\* processing steps it only starts the interval.  p is the progress the
\* handler itself has left.
ProgressEffect(newStep, p) ==
    IF newStep = step THEN p
    ELSE IF newStep = COMPLETED THEN Percent(100)
    ELSE IF newStep = IDLE \/ newStep = ERROR THEN Percent(0)
    ELSE p

\* what the view renders (App.tsx 549, 681, 701)
ViewIdle == step = IDLE \/ step = ERROR
ViewProcessing == ~ViewIdle /\ step # COMPLETED
ViewCompleted == ~ViewIdle /\ step = COMPLETED
\* disabled={isHooking || isIsanHooking || isRegenerating}
ButtonsEnabled == ~(isHooking \/ isIsanHooking \/ isRegenerating)

AppInit ==
    /\ step = IDLE
    /\ progress = 0
    /\ videoUrl = Null
    /\ videoBase64 = Null
    /\ videoMimeType = Null
    /\ videoDuration = 0
    /\ fileName = Null
    /\ translatedText = <<>>
    /\ errorMessage = Null
    /\ isRegenerating = FALSE
    /\ isHooking = FALSE
    /\ isIsanHooking = FALSE
    /\ hasApiKey = FALSE
    /\ currentAudioBuffer = Null
    /\ settings = DefaultSettings
    /\ abortRef = 0
    /\ flows = [f \in FlowIds |-> FreeFlow]
    /\ nextFlow = 1
    /\ lastSynth = 0
    /\ pendingReads = <<>>
    /\ pendingMeta = <<>>

RemoveAt(q, i) == SubSeq(q, 1, i - 1) \o SubSeq(q, i + 1, Len(q))

(***************************************************************************)
(* Video selection.                                                        *)
(***************************************************************************)
\* A plausible slip: the size check rejects a file of exactly the limit.
FileTooLargeInclusive(file) == file.size >= MaxFileBytes

\* file.size > 50 * 1024 * 1024
FileTooLarge(file) == file.size > MaxFileBytes

handleFileUpload ==
    /\ ViewIdle /\ ~MicrotaskPending
    /\ \E file \in Files :
          IF FileTooLarge(file)
          THEN /\ errorMessage' = Some(MsgFileTooLarge)
               /\ UNCHANGED <<fileName, pendingReads>>
          ELSE /\ Len(pendingReads) + Len(pendingMeta) < MaxPendingReads
               /\ errorMessage' = Null
               /\ fileName' = Some(file.name)
               /\ pendingReads' = Append(pendingReads, file)
    /\ UNCHANGED <<step, progress, videoUrl, videoBase64, videoMimeType, videoDuration,
                   pendingMeta, translatedText, flagVars, hasApiKey,
                   currentAudioBuffer, settings, flowVars, speechVars, audioVars, urlVars, mediaVars>>

\* reader.onload
readerOnload ==
    /\ ~MicrotaskPending
    /\ \E i \in 1..Len(pendingReads) :
          LET file == pendingReads[i]
          IN /\ file \in Files
             /\ videoBase64' = Some(file)
             /\ videoMimeType' = Some(file.type)
             /\ videoUrl' = Some(ObjectUrl(file))
             /\ pendingReads' = RemoveAt(pendingReads, i)
             /\ pendingMeta' = Append(pendingMeta, file)
    /\ UNCHANGED <<step, progress, videoDuration, fileName, translatedText, errorMessage,
                   flagVars, hasApiKey, currentAudioBuffer, settings, flowVars,
                   speechVars, audioVars, urlVars, mediaVars>>

\* tempVideo.onloadedmetadata
onloadedmetadata ==
    /\ ~MicrotaskPending
    /\ \E i \in 1..Len(pendingMeta) :
          /\ videoDuration' = pendingMeta[i].duration
          /\ pendingMeta' = RemoveAt(pendingMeta, i)
    /\ UNCHANGED <<step, progress, videoUrl, videoBase64, videoMimeType, fileName,
                   pendingReads, translatedText, errorMessage, flagVars, hasApiKey,
                   currentAudioBuffer, settings, flowVars, speechVars, audioVars, urlVars, mediaVars>>

(***************************************************************************)
(* Settings, API key, textarea.                                            *)
(***************************************************************************)
\* updateSettings('mood', m); the mood buttons are in the completed view
updateSettings ==
    /\ ViewCompleted /\ ~MicrotaskPending
    /\ \E m \in Moods : settings' = [settings EXCEPT !.mood = m]
    /\ UNCHANGED <<step, progress, videoVars, translatedText, errorMessage, flagVars,
                   hasApiKey, currentAudioBuffer, flowVars, speechVars, audioVars, urlVars, mediaVars>>

handleSelectApiKey ==
    /\ ~MicrotaskPending
    /\ hasApiKey' = TRUE
    /\ UNCHANGED <<step, progress, videoVars, translatedText, errorMessage, flagVars,
                   currentAudioBuffer, settings, flowVars, speechVars, audioVars, urlVars, mediaVars>>

\* onChange of the textarea: setTranslatedText(e.target.value)
editTranslatedText ==
    /\ ViewCompleted /\ ~MicrotaskPending
    /\ \E t \in EditTexts : translatedText' = t
    /\ UNCHANGED <<step, progress, videoVars, errorMessage, flagVars, hasApiKey,
                   currentAudioBuffer, settings, flowVars, speechVars, audioVars, urlVars, mediaVars>>

(***************************************************************************)
(* The processing pipeline.                                                *)
(***************************************************************************)
\* The synchronous start of refreshVoice's generateThaiSpeech call by flow f:
\* the flow with the call in it, and the flow of the latest request after it.
VoiceFlow(fl, textToUse, call) ==
    [fl EXCEPT !.pc = "voice", !.text = textToUse, !.call = call]
LastSynthAfter(f, call) == IF call.phase = "request" THEN f ELSE lastSynth

\* A plausible slip: the guard looks at the MIME type alone, which
\* handleStartOver does not reset.
NoVideoTypeOnly == videoMimeType = Null

\* if (!videoBase64 || !videoMimeType)
NoVideo == videoBase64 = Null \/ videoMimeType = Null

\* startProcessing up to its first await.  The start button is rendered only
\* with a video (line 667); the handler's own guard (lines 229-232) covers a
\* call without one.
startProcessing ==
    /\ ViewIdle /\ ~MicrotaskPending
    /\ IF NoVideo
       THEN /\ errorMessage' = Some(MsgSelectVideo)
            /\ UNCHANGED <<step, flowVars>>
       ELSE /\ nextFlow <= MaxFlows
            /\ flows' = [flows EXCEPT ![nextFlow] =
                           [FreeFlow EXCEPT !.kind = "run", !.pc = "translate",
                                            !.hasController = TRUE,
                                            !.video = videoBase64,
                                            !.settings = settings,
                                            !.duration = videoDuration]]
            /\ abortRef' = nextFlow
            /\ nextFlow' = nextFlow + 1
            /\ step' = ANALYZING
            /\ UNCHANGED <<errorMessage, lastSynth>>
    /\ UNCHANGED <<progress, videoVars, translatedText, flagVars, hasApiKey,
                   currentAudioBuffer, settings, speechVars, audioVars, urlVars, mediaVars>>

\* A plausible slip: the voice step entered without storing the translation.
TranslatedTextAfterStale(fl, text) == translatedText

\* setTranslatedText(text) of a run that was not cancelled
TranslatedTextAfter(fl, text) == IF Aborted(fl) THEN translatedText ELSE text

\* translateVideoContent resolved: startProcessing from line 240 to the await
\* inside refreshVoice (line 309)
startProcessingTranslated ==
    /\ ~MicrotaskPending
    /\ \E f \in FlowIds, apiText \in ApiTexts :
          LET fl == flows[f]
              \* return cleanTextForSpeech(response.text || '')
              text == cleanTextForSpeech(apiText)
              call == generateThaiSpeech(text, fl.settings, fl.duration, 0, <<>>, <<>>)
          IN /\ fl.kind = "run" /\ fl.pc = "translate"
             /\ translatedText' = TranslatedTextAfter(fl, text)
             /\ IF Aborted(fl)
                THEN /\ flows' = [flows EXCEPT ![f] = DoneFlow(fl)]
                     /\ UNCHANGED <<step, errorMessage, isRegenerating,
                                    currentAudioBuffer, lastSynth>>
                ELSE /\ step' = GENERATING_VOICE
                     /\ isRegenerating' = TRUE
                     /\ currentAudioBuffer' = Null
                     /\ errorMessage' = Null
                     /\ flows' = [flows EXCEPT ![f] = VoiceFlow(fl, text, call)]
                     /\ lastSynth' = LastSynthAfter(f, call)
    /\ UNCHANGED <<progress, videoVars, isHooking, isIsanHooking, hasApiKey,
                   settings, abortRef, nextFlow, speechVars, audioVars, urlVars, mediaVars>>

\* A plausible slip: the catch block reports the error and leaves the step.
StepAfterTranslateFailedStuck(fl, error) == step

\* line 249: if (error.name === 'AbortError' || controller.signal.aborted) return;
\* line 251: setStep(ProcessingStep.ERROR)
StepAfterTranslateFailed(fl, error) ==
    IF error.name = "AbortError" \/ Aborted(fl) THEN step ELSE ERROR

\* translateVideoContent rejected: the catch block of startProcessing
startProcessingTranslateFailed ==
    /\ ~MicrotaskPending
    /\ \E f \in FlowIds, m \in AppApiMessages :
          LET fl == flows[f]
              error == Error(m)
          IN /\ fl.kind = "run" /\ fl.pc = "translate"
             /\ flows' = [flows EXCEPT ![f] = DoneFlow(fl)]
             /\ step' = StepAfterTranslateFailed(fl, error)
             /\ progress' = ProgressEffect(StepAfterTranslateFailed(fl, error), progress)
             /\ errorMessage' =
                   IF error.name = "AbortError" \/ Aborted(fl) THEN errorMessage
                   ELSE Some(MessageOr(error, MsgProcessingFailed))
    /\ UNCHANGED <<videoVars, translatedText, flagVars, hasApiKey,
                   currentAudioBuffer, settings, abortRef, nextFlow, lastSynth,
                   speechVars, audioVars, urlVars, mediaVars>>

\* the backoff timer of a generateThaiSpeech retry fires
speechDelayElapsed ==
    /\ ~MicrotaskPending
    /\ \E f \in FlowIds :
          /\ flows[f].pc = "voice" /\ flows[f].call.phase = "delay"
          /\ flows' = [flows EXCEPT ![f].call = DelayElapsed(@)]
          /\ lastSynth' = IF Aborted(flows[f]) THEN lastSynth ELSE f
    /\ UNCHANGED <<step, progress, videoVars, translatedText, errorMessage, flagVars,
                   hasApiKey, currentAudioBuffer, settings, abortRef, nextFlow,
                   speechVars, audioVars, urlVars, mediaVars>>

\* the speech request of a flow returns or throws
speechResponse ==
    /\ ~MicrotaskPending
    /\ \E f \in FlowIds, o \in AppOutcomes :
          /\ flows[f].pc = "voice" /\ flows[f].call.phase = "request"
          /\ flows' = [flows EXCEPT ![f].call = HandleResponse(@, o)]
    /\ UNCHANGED <<step, progress, videoVars, translatedText, errorMessage, flagVars,
                   hasApiKey, currentAudioBuffer, settings, abortRef, nextFlow,
                   lastSynth, speechVars, audioVars, urlVars, mediaVars>>

\* A plausible slip: refreshVoice lets the failure through, so the catch
\* block of startProcessing sets ERROR.
StepAfterVoiceThrowing(fl) ==
    IF fl.kind = "run" /\ ~Aborted(fl)
    THEN IF fl.call.phase = "rejected" THEN ERROR ELSE COMPLETED
    ELSE step

\* startProcessing after 'await refreshVoice(...)', lines 245-247
StepAfterVoice(fl) ==
    IF fl.kind = "run" /\ ~Aborted(fl) THEN COMPLETED ELSE step

\* finally { setIsRegenerating(false) }
IsRegeneratingAfter(fl) == FALSE

\* A plausible slip: every failure of the synthesis is blamed on the key.
IsEntityNotFoundAlways(error) == TRUE

\* e.message?.includes("Requested entity was not found")
IsEntityNotFound(error) == Includes(error.message, "Requested entity was not found")

\* refreshVoice from line 310 on, once generateThaiSpeech has settled, and
\* for a pipeline run the rest of startProcessing
refreshVoiceSettled ==
    \E f \in FlowIds :
       LET fl == flows[f]
           result == fl.call.result[1]
       IN /\ fl.pc = "voice" /\ Settled(fl.call)
          /\ IF Aborted(fl)
             THEN UNCHANGED <<currentAudioBuffer, errorMessage, hasApiKey>>
             ELSE IF fl.call.phase = "resolved"
                  THEN \* decodePCMData, setCurrentAudioBuffer
                       /\ currentAudioBuffer' = Some([by |-> f, audio |-> result])
                       /\ UNCHANGED <<errorMessage, hasApiKey>>
                  ELSE /\ IF IsEntityNotFound(result)
                          THEN /\ hasApiKey' = FALSE
                               /\ errorMessage' = Some(MsgInvalidApiKey)
                          ELSE /\ errorMessage' = Some(MessageOr(result, MsgVoiceFailed))
                               /\ UNCHANGED hasApiKey
                       /\ UNCHANGED currentAudioBuffer
          /\ isRegenerating' = IsRegeneratingAfter(fl)
          /\ step' = StepAfterVoice(fl)
          /\ progress' = ProgressEffect(StepAfterVoice(fl), progress)
          /\ flows' = [flows EXCEPT ![f] = DoneFlow(fl)]
          /\ UNCHANGED <<videoVars, translatedText, isHooking, isIsanHooking,
                         settings, abortRef, nextFlow, lastSynth, speechVars, audioVars, urlVars, mediaVars>>

\* the regenerate button: refreshVoice(translatedText) up to its await
refreshVoice ==
    /\ ViewCompleted /\ ButtonsEnabled /\ ~MicrotaskPending
    /\ nextFlow <= MaxFlows
    /\ LET fl == [FreeFlow EXCEPT !.kind = "regen", !.settings = settings,
                                  !.duration = videoDuration]
           call == generateThaiSpeech(translatedText, settings, videoDuration,
                                      0, <<>>, <<>>)
       IN /\ flows' = [flows EXCEPT ![nextFlow] = VoiceFlow(fl, translatedText, call)]
          /\ lastSynth' = LastSynthAfter(nextFlow, call)
    /\ nextFlow' = nextFlow + 1
    /\ isRegenerating' = TRUE
    /\ currentAudioBuffer' = Null
    /\ errorMessage' = Null
    /\ UNCHANGED <<step, progress, videoVars, translatedText, isHooking, isIsanHooking,
                   hasApiKey, settings, abortRef, speechVars, audioVars, urlVars, mediaVars>>

\* A plausible slip: handleCancel without setErrorMessage(null).
handleCancelKeepsError ==
    /\ ViewProcessing /\ ~MicrotaskPending
    /\ flows' = IF abortRef # 0 THEN [flows EXCEPT ![abortRef] = Abort(@)]
                ELSE flows
    /\ step' = IDLE
    /\ progress' = ProgressEffect(IDLE, Percent(0))
    /\ isHooking' = FALSE
    /\ isIsanHooking' = FALSE
    /\ isRegenerating' = FALSE
    /\ currentAudioBuffer' = Null
    /\ UNCHANGED <<videoVars, translatedText, errorMessage, hasApiKey, settings,
                   abortRef, nextFlow, lastSynth, speechVars, audioVars, urlVars, mediaVars>>

handleCancel ==
    /\ ViewProcessing /\ ~MicrotaskPending
    /\ flows' = IF abortRef # 0 THEN [flows EXCEPT ![abortRef] = Abort(@)]
                ELSE flows
    /\ step' = IDLE
    /\ errorMessage' = Null
    /\ progress' = ProgressEffect(IDLE, Percent(0))
    /\ isHooking' = FALSE
    /\ isIsanHooking' = FALSE
    /\ isRegenerating' = FALSE
    /\ currentAudioBuffer' = Null
    /\ UNCHANGED <<videoVars, translatedText, hasApiKey, settings, abortRef,
                   nextFlow, lastSynth, speechVars, audioVars, urlVars, mediaVars>>

handleStartOver ==
    /\ ViewCompleted /\ ~MicrotaskPending
    /\ step' = IDLE
    /\ fileName' = Null
    /\ videoBase64' = Null
    /\ videoUrl' = Null
    /\ currentAudioBuffer' = Null
    /\ translatedText' = <<>>
    /\ errorMessage' = Null
    /\ progress' = ProgressEffect(IDLE, Percent(0))
    /\ UNCHANGED <<videoMimeType, videoDuration, pendingReads, pendingMeta, flagVars,
                   hasApiKey, settings, flowVars, speechVars, audioVars, urlVars, mediaVars>>

(***************************************************************************)
(* The hooks.                                                              *)
(***************************************************************************)
HookFlow(kind) ==
    [FreeFlow EXCEPT !.kind = kind, !.pc = "hook", !.hasController = TRUE,
                     !.text = translatedText, !.settings = settings]

applyAIHook ==
    /\ ViewCompleted /\ ButtonsEnabled /\ ~MicrotaskPending
    /\ ~(translatedText = <<>> \/ isHooking)
    /\ nextFlow <= MaxFlows
    /\ isHooking' = TRUE
    /\ currentAudioBuffer' = Null
    /\ errorMessage' = Null
    /\ flows' = [flows EXCEPT ![nextFlow] = HookFlow("hook")]
    /\ abortRef' = nextFlow
    /\ nextFlow' = nextFlow + 1
    /\ UNCHANGED <<step, progress, videoVars, translatedText, isRegenerating, isIsanHooking,
                   hasApiKey, settings, lastSynth, speechVars, audioVars, urlVars, mediaVars>>

applyIsanHook ==
    /\ ViewCompleted /\ ButtonsEnabled /\ ~MicrotaskPending
    /\ ~(translatedText = <<>> \/ isIsanHooking)
    /\ nextFlow <= MaxFlows
    /\ isIsanHooking' = TRUE
    /\ currentAudioBuffer' = Null
    /\ errorMessage' = Null
    /\ settings' = [settings EXCEPT !.mood = "isan"]
    /\ flows' = [flows EXCEPT ![nextFlow] = HookFlow("isan")]
    /\ abortRef' = nextFlow
    /\ nextFlow' = nextFlow + 1
    /\ UNCHANGED <<step, progress, videoVars, translatedText, isRegenerating, isHooking,
                   hasApiKey, lastSynth, speechVars, audioVars, urlVars, mediaVars>>

\* generateThaiHook / generateIsanHook resolved:
\* return cleanTextForSpeech(response.text || currentText)
hookResolved ==
    /\ ~MicrotaskPending
    /\ \E f \in FlowIds, apiText \in HookTexts :
          LET fl == flows[f]
              hookedText == cleanTextForSpeech(IF apiText # <<>> THEN apiText
                                               ELSE fl.text)
          IN /\ fl.pc = "hook"
             /\ translatedText' = IF Aborted(fl) THEN translatedText ELSE hookedText
             /\ isHooking' = IF fl.kind = "hook" THEN FALSE ELSE isHooking
             /\ isIsanHooking' = IF fl.kind = "isan" THEN FALSE ELSE isIsanHooking
             /\ flows' = [flows EXCEPT ![f] = DoneFlow(fl)]
    /\ UNCHANGED <<step, progress, videoVars, errorMessage, isRegenerating, hasApiKey,
                   currentAudioBuffer, settings, abortRef, nextFlow, lastSynth,
                   speechVars, audioVars, urlVars, mediaVars>>

\* generateThaiHook / generateIsanHook rejected
hookRejected ==
    /\ ~MicrotaskPending
    /\ \E f \in FlowIds, m \in AppApiMessages :
          LET fl == flows[f]
              e == Error(m)
          IN /\ fl.pc = "hook"
             /\ errorMessage' =
                   IF e.name # "AbortError"
                   THEN Some(MessageOr(e, IF fl.kind = "hook" THEN MsgHookFailed
                                          ELSE MsgIsanHookFailed))
                   ELSE errorMessage
             /\ isHooking' = IF fl.kind = "hook" THEN FALSE ELSE isHooking
             /\ isIsanHooking' = IF fl.kind = "isan" THEN FALSE ELSE isIsanHooking
             /\ flows' = [flows EXCEPT ![f] = DoneFlow(fl)]
    /\ UNCHANGED <<step, progress, videoVars, translatedText, isRegenerating, hasApiKey,
                   currentAudioBuffer, settings, abortRef, nextFlow, lastSynth,
                   speechVars, audioVars, urlVars, mediaVars>>

(***************************************************************************)
(* PCM audio: decodePCMData (geminiService.ts) and audioBufferToWav        *)
(* (App.tsx).  A sample of an AudioBuffer is written as its numerator over *)
(* 32768: the sample k stands for the float k / 32768, which is exact in   *)
(* Float32 for every k of the model.  Bytes are 0..255.                    *)
(***************************************************************************)
MaxBytes == 4     \* longest PCM input, in bytes
MaxFrames == 2    \* longest AudioBuffer handed to audioBufferToWav directly

SampleScale == 32768

\* the bytes PCM inputs are made of: they form the 16-bit values 0, 1, -1,
\* 32767, -32768 and the values around -0.5 (-16384, -16385) among others
PcmBytes == {0, 1, 127, 128, 191, 192, 255}
PcmInputs == UNION {[1..n -> PcmBytes] : n \in 0..MaxBytes}

\* samples of a buffer that did not come from decodePCMData: below -1, just
\* below and at -0.5, small ones of either sign, above 1
Samples == {-40000, -16385, -16384, -1, 3, 40000}
SampleRates == {24000}
ChannelCounts == {1, 2}
Buffers ==
    UNION {{[numberOfChannels |-> c, length |-> f, sampleRate |-> r, channels |-> ch] :
               r \in SampleRates, ch \in [1..c -> [1..f -> Samples]]} :
           c \in ChannelCounts, f \in 1..MaxFrames}

\* an element of an Int16Array over little-endian bytes lo, hi
Int16(lo, hi) ==
    LET u == lo + 256 * hi IN IF u >= 32768 THEN u - 65536 ELSE u

\* A plausible slip: the bytes of a sample taken in the other order.
Int16ArrayBigEndian(data) ==
    [i \in 1..(Len(data) \div 2) |-> Int16(data[2 * i], data[2 * i - 1])]

\* new Int16Array(data.buffer, data.byteOffset, data.byteLength / 2): the
\* length is converted by ToIndex, which drops the fraction
Int16Array(data) ==
    [i \in 1..(Len(data) \div 2) |-> Int16(data[2 * i - 1], data[2 * i])]

\* ctx.createBuffer(numChannels, frameCount, sampleRate): the Web Audio API
\* throws NotSupportedError for a buffer of no frames
CreateBufferThrows(numChannels, frameCount) == frameCount <= 0 \/ numChannels <= 0

\* decodePCMData(data, ctx, sampleRate, numChannels): the division by 32768.0
\* leaves the numerator dataInt16[i * numChannels + channel]
decodePCMData(data, sampleRate, numChannels) ==
    LET dataInt16 == Int16Array(data)
        frameCount == Len(dataInt16) \div numChannels
    IN IF CreateBufferThrows(numChannels, frameCount)
       THEN [throws |-> TRUE, buffer |-> Null]
       ELSE [throws |-> FALSE,
             buffer |-> Some([numberOfChannels |-> numChannels,
                              length |-> frameCount,
                              sampleRate |-> sampleRate,
                              channels |->
                                 [channel \in 1..numChannels |->
                                    [i \in 1..frameCount |->
                                       dataInt16[(i - 1) * numChannels + channel]]]])]

\* x | 0 for a quotient a / b with b > 0: the fraction is dropped towards
\* zero.  A clamped sample times 32768 is within the signed 32-bit range, so
\* the conversion to 32 bits changes nothing else.
TruncDiv(a, b) == IF a >= 0 THEN a \div b ELSE -((-a) \div b)

\* Math.max(-1, Math.min(1, sample))
Clamp(k) == IF k < -SampleScale THEN -SampleScale
            ELSE IF k > SampleScale THEN SampleScale ELSE k

\* (0.5 + sample < 0 ? sample * 32768 : sample * 32767) | 0, where + binds
\* tighter than <: the test is sample < -0.5
EncodeSample(k) ==
    LET sample == Clamp(k)
    IN IF SampleScale + 2 * sample < 0
       THEN sample
       ELSE TruncDiv(sample * 32767, SampleScale)

\* DataView.setUint16 / setInt16 / setUint32 with littleEndian = true: the
\* low 16 bits, and the four bytes of a value from 0 to 2^31 - 1 (every
\* value the header holds at the sizes of the model)
U16Bytes(n) == LET u == n % 65536 IN <<u % 256, u \div 256>>
U32Bytes(n) ==
    <<n % 256, (n \div 256) % 256, (n \div 65536) % 256, (n \div 16777216) % 256>>
WriteAt(view, pos, bytes) ==
    [i \in 1..Len(view) |->
        IF i > pos /\ i <= pos + Len(bytes) THEN bytes[i - pos] ELSE view[i]]

\* DataView reads, for the fields of the result
U16At(view, pos) == view[pos + 1] + 256 * view[pos + 2]
U32At(view, pos) ==
    view[pos + 1] + 256 * view[pos + 2] + 65536 * view[pos + 3]
      + 16777216 * view[pos + 4]
I16At(view, pos) == Int16(view[pos + 1], view[pos + 2])

\* the thirteen header writes of lines 482-486, in order
WavHeader(buffer, length) ==
    LET numOfChan == buffer.numberOfChannels
    IN U32Bytes(1179011410) \o U32Bytes(length - 8) \o U32Bytes(1163280727)
       \o U32Bytes(544501094) \o U32Bytes(16) \o U16Bytes(1) \o U16Bytes(numOfChan)
       \o U32Bytes(buffer.sampleRate) \o U32Bytes(buffer.sampleRate * 2 * numOfChan)
       \o U16Bytes(numOfChan * 2) \o U16Bytes(16) \o U32Bytes(1635017060)

WavIdle ==
    [pc |-> "idle", length |-> 0, view |-> <<>>, pos |-> 0, offset |-> 0,
     written |-> 0, readPast |-> FALSE]

AudioIdle ==
    /\ pcmData = Null
    /\ audioBuffer = Null
    /\ wav = WavIdle

\* A plausible slip: the size of the buffer without the header.
WavLengthNoHeader(buffer) == buffer.length * buffer.numberOfChannels * 2

\* const length = buffer.length * numOfChan * 2 + 44
WavLength(buffer) == buffer.length * buffer.numberOfChannels * 2 + 44

\* await decodePCMData(pcmData, audioContextRef.current) in refreshVoice
AudioDecode ==
    /\ pcmData # Null /\ audioBuffer = Null /\ wav.pc = "idle"
    /\ LET r == decodePCMData(pcmData[1], 24000, 1)
       IN IF r.throws
          THEN /\ wav' = [wav EXCEPT !.pc = "decode failed"]
               /\ UNCHANGED audioBuffer
          ELSE /\ audioBuffer' = r.buffer
               /\ UNCHANGED wav
    /\ UNCHANGED <<pcmData, appVars, speechVars, urlVars, mediaVars>>

\* audioBufferToWav up to the loop: the ArrayBuffer (zero-filled), the header
\* and the data size, length - pos - 4 at pos = 40
audioBufferToWav ==
    /\ audioBuffer # Null /\ wav.pc = "idle"
    /\ LET buffer == audioBuffer[1]
           length == WavLength(buffer)
           header == WavHeader(buffer, length)
           pos == Len(header)
           zeros == [i \in 1..length |-> 0]
       IN wav' = [pc |-> "loop", length |-> length,
                  view |-> WriteAt(WriteAt(zeros, 0, header), pos,
                                   U32Bytes(length - pos - 4)),
                  pos |-> pos + 4, offset |-> 0, written |-> 0,
                  readPast |-> FALSE]
    /\ UNCHANGED <<pcmData, audioBuffer, appVars, speechVars, urlVars, mediaVars>>

\* channels[i][offset]: past the end of a Float32Array it is undefined, which
\* Math.min turns into NaN and | 0 into 0
ChannelSample(buffer, i, offset) ==
    IF offset < buffer.length THEN EncodeSample(buffer.channels[i][offset + 1])
    ELSE 0

RECURSIVE WriteFrame(_, _, _, _, _)
\* the inner for loop from channel i on: view.setInt16(pos, sample, true)
WriteFrame(buffer, view, pos, offset, i) ==
    IF i > buffer.numberOfChannels THEN view
    ELSE WriteFrame(buffer,
                    WriteAt(view, pos, U16Bytes(ChannelSample(buffer, i, offset))),
                    pos + 2, offset, i + 1)

\* one pass of while (pos < length)
WavFrame ==
    /\ wav.pc = "loop" /\ wav.pos < wav.length
    /\ LET buffer == audioBuffer[1]
       IN wav' = [wav EXCEPT
                    !.view = WriteFrame(buffer, wav.view, wav.pos, wav.offset, 1),
                    !.pos = @ + 2 * buffer.numberOfChannels,
                    !.offset = @ + 1,
                    !.written = @ + buffer.numberOfChannels,
                    !.readPast = @ \/ wav.offset >= buffer.length]
    /\ UNCHANGED <<pcmData, audioBuffer, appVars, speechVars, urlVars, mediaVars>>

\* the loop is left: return new Blob([arrayBuffer])
WavReturn ==
    /\ wav.pc = "loop" /\ ~(wav.pos < wav.length)
    /\ wav' = [wav EXCEPT !.pc = "done"]
    /\ UNCHANGED <<pcmData, audioBuffer, appVars, speechVars, urlVars, mediaVars>>

\* AudioSpec: every bounded PCM input decoded and then exported, and every
\* bounded buffer exported
AudioInit ==
    /\ AppInit
    /\ speech = NoCall /\ cleanIn = <<>> /\ lastOutcome = Null /\ CleanIdle /\ UrlIdle /\ MediaIdle
    /\ wav = WavIdle
    /\ \/ pcmData \in {Some(d) : d \in PcmInputs} /\ audioBuffer = Null
       \/ pcmData = Null /\ audioBuffer \in {Some(b) : b \in Buffers}

AudioNext == AudioDecode \/ audioBufferToWav \/ WavFrame \/ WavReturn

AudioSpec == AudioInit /\ [][AudioNext]_vars

(***************************************************************************)
(* UrlSpec: handleUrlFetch (App.tsx 118-213).  The invocation is a record: *)
(*   pc        "post" (fetch of an endpoint pending), "errBody"            *)
(*             (response.text() pending), "json" (response.json()          *)
(*             pending), "download" (fetch of data.url pending),           *)
(*             "arrayBuffer" (videoResp.arrayBuffer() pending), "read"     *)
(*             (FileReader pending), "done"                                *)
(*   input     videoUrlInput as the invocation read it                     *)
(*   api, endpoint  the position of the two loops                          *)
(*   before    videoBase64, videoMimeType, videoUrl and fileName when the  *)
(*             invocation started (history)                                *)
(* A URL is a sequence of tokens; one that 'new URL' accepts starts with   *)
(* its scheme, followed by the host name.                                  *)
(***************************************************************************)
MaxImports == 2       \* invocations of handleUrlFetch in one behaviour

ApiInstances == 3
EndpointsPerInstance == 2

UrlInputs ==
    {<<>>, <<"https://", "youtu.be", "/v">>, <<"youtu.be", "/v">>}

MsgEnterUrl == <<"enter a video link">>
MsgCannotDownload == <<"cannot download the video from this link">>
MsgUrlTooLarge == <<"video from the link too large (limit 50MB)">>
MsgUrlFetchFailed == <<"error fetching the video">>
MsgInvalidUrl == <<"Invalid URL">>

\* new URL(input): throws a TypeError unless the input is an absolute URL
UrlThrows(input) == Len(input) < 2 \/ input[1] # "https://"
\* new URL(input).hostname
Hostname(input) == input[2]

\* sizes of the downloaded video, and its Content-Type header
DownloadSizes == {MaxFileBytes, MaxFileBytes + 1}
ContentTypes == {Null, Some("video/webm")}

\* new Blob([videoBuffer], { type: videoMime }), as the file it stands for
Blob(size, contentType) ==
    [name |-> "blob", size |-> size,
     type |-> IF contentType # Null THEN contentType[1] ELSE "video/mp4",
     duration |-> 12]

\* onChange of the URL field: setVideoUrlInput(e.target.value)
setVideoUrlInput ==
    /\ ViewIdle
    /\ \E input \in UrlInputs :
          /\ input # videoUrlInput
          /\ videoUrlInput' = input
    /\ UNCHANGED <<isFetchingUrl, urlFetch, imports, appVars, speechVars, audioVars, mediaVars>>

\* handleUrlFetch up to its first await.  The button is disabled while
\* isFetchingUrl or with an empty field (line 616); the handler's own test
\* (lines 119-122) covers a call with an empty field.
handleUrlFetch ==
    /\ ViewIdle /\ ~isFetchingUrl
    /\ IF videoUrlInput = <<>>
       THEN /\ errorMessage' = Some(MsgEnterUrl)
            /\ UNCHANGED <<isFetchingUrl, urlFetch, imports>>
       ELSE /\ imports < MaxImports
            /\ imports' = imports + 1
            /\ isFetchingUrl' = TRUE
            /\ errorMessage' = Null
            /\ urlFetch' = [pc |-> "post", input |-> videoUrlInput, api |-> 1,
                            endpoint |-> 1, dataUrl |-> <<>>,
                            before |-> <<videoBase64, videoMimeType, videoUrl,
                                         fileName>>]
    /\ UNCHANGED <<videoUrlInput, step, progress, videoVars, translatedText, flagVars,
                   hasApiKey, currentAudioBuffer, settings, flowVars, speechVars,
                   audioVars, mediaVars>>

\* A plausible slip: the state is not reset when the instances are used up.
UrlFailsFetching(message) ==
    /\ urlFetch' = [urlFetch EXCEPT !.pc = "done"]
    /\ errorMessage' = Some(message)
    /\ UNCHANGED isFetchingUrl

\* throw inside the outer try: catch (line 209), finally (line 211)
UrlFails(message) ==
    /\ urlFetch' = [urlFetch EXCEPT !.pc = "done"]
    /\ errorMessage' = Some(message)
    /\ isFetchingUrl' = FALSE

\* the end of the inner try or its catch: the next endpoint, the next
\* instance, or lines 181-183 when there is none
UrlNextEndpoint ==
    IF urlFetch.endpoint < EndpointsPerInstance
    THEN /\ urlFetch' = [urlFetch EXCEPT !.pc = "post", !.endpoint = @ + 1]
         /\ UNCHANGED <<errorMessage, isFetchingUrl>>
    ELSE IF urlFetch.api < ApiInstances
         THEN /\ urlFetch' = [urlFetch EXCEPT !.pc = "post", !.api = @ + 1,
                                              !.endpoint = 1]
              /\ UNCHANGED <<errorMessage, isFetchingUrl>>
         ELSE UrlFails(MsgCannotDownload)

\* the POST to the endpoint settles: it throws, or returns a response that
\* is ok or not
urlPostSettled ==
    /\ urlFetch.pc = "post"
    /\ \/ UrlNextEndpoint
       \/ /\ urlFetch' = [urlFetch EXCEPT !.pc = "errBody"]
          /\ UNCHANGED <<errorMessage, isFetchingUrl>>
       \/ /\ urlFetch' = [urlFetch EXCEPT !.pc = "json"]
          /\ UNCHANGED <<errorMessage, isFetchingUrl>>
    /\ UNCHANGED <<videoUrlInput, imports, step, progress, videoVars, translatedText,
                   flagVars, hasApiKey, currentAudioBuffer, settings, flowVars,
                   speechVars, audioVars, mediaVars>>

\* response.text() of a response that is not ok settles: continue, or catch
urlErrBodySettled ==
    /\ urlFetch.pc = "errBody"
    /\ UrlNextEndpoint
    /\ UNCHANGED <<videoUrlInput, imports, step, progress, videoVars, translatedText,
                   flagVars, hasApiKey, currentAudioBuffer, settings, flowVars,
                   speechVars, audioVars, mediaVars>>

\* response.json() settles: it throws, or the data has a url or has none
urlJsonSettled ==
    /\ urlFetch.pc = "json"
    /\ \/ UrlNextEndpoint
       \/ /\ urlFetch' = [urlFetch EXCEPT !.pc = "download",
                                          !.dataUrl = <<"https://", "cdn", "/file">>]
          /\ UNCHANGED <<errorMessage, isFetchingUrl>>
    /\ UNCHANGED <<videoUrlInput, imports, step, progress, videoVars, translatedText,
                   flagVars, hasApiKey, currentAudioBuffer, settings, flowVars,
                   speechVars, audioVars, mediaVars>>

\* fetch(data.url) settles: it throws or returns a response
urlDownloadSettled ==
    /\ urlFetch.pc = "download"
    /\ \/ UrlNextEndpoint
       \/ /\ urlFetch' = [urlFetch EXCEPT !.pc = "arrayBuffer"]
          /\ UNCHANGED <<errorMessage, isFetchingUrl>>
    /\ UNCHANGED <<videoUrlInput, imports, step, progress, videoVars, translatedText,
                   flagVars, hasApiKey, currentAudioBuffer, settings, flowVars,
                   speechVars, audioVars, mediaVars>>

\* videoResp.arrayBuffer() settles: it throws, or lines 170-190 run: the
\* loops are left, the size is tested and the FileReader is started
urlArrayBufferSettled ==
    /\ urlFetch.pc = "arrayBuffer"
    /\ \/ /\ UrlNextEndpoint
          /\ UNCHANGED pendingReads
       \/ \E size \in DownloadSizes, contentType \in ContentTypes :
             IF size > MaxFileBytes
             THEN /\ UrlFails(MsgUrlTooLarge)
                  /\ UNCHANGED pendingReads
             ELSE /\ urlFetch' = [urlFetch EXCEPT !.pc = "read"]
                  /\ pendingReads' = Append(pendingReads, Blob(size, contentType))
                  /\ UNCHANGED <<errorMessage, isFetchingUrl>>
    /\ UNCHANGED <<videoUrlInput, imports, step, progress, videoUrl, videoBase64,
                   videoMimeType, videoDuration, fileName, pendingMeta, translatedText,
                   flagVars, hasApiKey, currentAudioBuffer, settings, flowVars,
                   speechVars, audioVars, mediaVars>>

\* reader.onload of the blob resolves the promise: lines 197-207, then the
\* finally block, or the catch block when 'new URL' throws at line 201
urlReaderOnload ==
    /\ urlFetch.pc = "read"
    /\ LET blob == pendingReads[Len(pendingReads)]
       IN /\ videoBase64' = Some(blob)
          /\ videoMimeType' = Some(blob.type)
          /\ videoUrl' = Some(ObjectUrl(blob))
          /\ pendingReads' = SubSeq(pendingReads, 1, Len(pendingReads) - 1)
          /\ IF UrlThrows(urlFetch.input)
             THEN /\ UrlFails(MessageOr(Error(MsgInvalidUrl), MsgUrlFetchFailed))
                  /\ UNCHANGED <<fileName, pendingMeta>>
             ELSE /\ fileName' = Some(<<"URL: ", Hostname(urlFetch.input)>>)
                  /\ pendingMeta' = Append(pendingMeta, blob)
                  /\ urlFetch' = [urlFetch EXCEPT !.pc = "done"]
                  /\ isFetchingUrl' = FALSE
                  /\ UNCHANGED errorMessage
    /\ UNCHANGED <<videoUrlInput, imports, step, progress, videoDuration, translatedText,
                   flagVars, hasApiKey, currentAudioBuffer, settings, flowVars,
                   speechVars, audioVars, mediaVars>>

UrlInit ==
    /\ AppInit
    /\ speech = NoCall
    /\ cleanIn = <<>>
    /\ lastOutcome = Null
    /\ CleanIdle
    /\ UrlIdle /\ MediaIdle
    /\ AudioIdle

UrlNext ==
    \/ setVideoUrlInput
    \/ handleUrlFetch
    \/ urlPostSettled
    \/ urlErrBodySettled
    \/ urlJsonSettled
    \/ urlDownloadSettled
    \/ urlArrayBufferSettled
    \/ urlReaderOnload
    \/ onloadedmetadata

UrlSpec == UrlInit /\ [][UrlNext]_vars

\* every request of handleUrlFetch returns or fails, and the FileReader of
\* the downloaded blob fires onload
UrlFairness ==
    /\ WF_vars(urlPostSettled)
    /\ WF_vars(urlErrBodySettled)
    /\ WF_vars(urlJsonSettled)
    /\ WF_vars(urlDownloadSettled)
    /\ WF_vars(urlArrayBufferSettled)
    /\ WF_vars(urlReaderOnload)

UrlFairSpec == UrlSpec /\ UrlFairness

(***************************************************************************)
(* VideoSpec: the two ways of selecting a video together, the file input   *)
(* (handleFileUpload) and the import from a URL (handleUrlFetch), with     *)
(* their reads completing in any order.                                    *)
(***************************************************************************)
VideoNext ==
    \/ handleFileUpload
    \/ readerOnload
    \/ UrlNext

VideoSpec == UrlInit /\ [][VideoNext]_vars

Init ==
    /\ AppInit
    /\ speech = NoCall
    /\ cleanIn = <<>>
    /\ lastOutcome = Null
    /\ CleanIdle
    /\ UrlIdle /\ MediaIdle
    /\ AudioIdle

Next ==
    \/ handleFileUpload
    \/ readerOnload
    \/ onloadedmetadata
    \/ updateSettings
    \/ handleSelectApiKey
    \/ editTranslatedText
    \/ startProcessing
    \/ startProcessingTranslated
    \/ startProcessingTranslateFailed
    \/ speechDelayElapsed
    \/ speechResponse
    \/ refreshVoiceSettled
    \/ refreshVoice
    \/ handleCancel
    \/ handleStartOver
    \/ applyAIHook
    \/ applyIsanHook
    \/ hookResolved
    \/ hookRejected

Spec == Init /\ [][Next]_vars

(***************************************************************************)
(* FairSpec: the pipeline under the assumption that every network request  *)
(* returns or fails, every timer fires and every continuation of a settled *)
(* promise runs.  The user uploads, starts, cancels, regenerates and       *)
(* starts over under no fairness; the settings, the text and the hooks,    *)
(* which no pipeline run reads after its start, are left alone.            *)
(***************************************************************************)
\* the translation request of a run returns or fails
TranslationReturns == startProcessingTranslated \/ startProcessingTranslateFailed

PipelineNext ==
    \/ handleFileUpload
    \/ readerOnload
    \/ onloadedmetadata
    \/ startProcessing
    \/ startProcessingTranslated
    \/ startProcessingTranslateFailed
    \/ speechDelayElapsed
    \/ speechResponse
    \/ refreshVoiceSettled
    \/ refreshVoice
    \/ handleCancel
    \/ handleStartOver

Fairness ==
    /\ WF_vars(TranslationReturns)
    /\ WF_vars(speechDelayElapsed)
    /\ WF_vars(speechResponse)
    /\ WF_vars(refreshVoiceSettled)

FairSpec == Init /\ [][PipelineNext]_vars /\ Fairness

(***************************************************************************)
(* ResultSpec: one pipeline run from its start to its return and one       *)
(* import from a URL, with files selected before and during the run; the   *)
(* translation and the synthesis are answered at the first attempt.        *)
(***************************************************************************)
ResultNext ==
    \/ handleFileUpload
    \/ readerOnload
    \/ onloadedmetadata
    \/ setVideoUrlInput
    \/ (imports = 0 /\ handleUrlFetch)
    \/ urlPostSettled
    \/ urlErrBodySettled
    \/ urlJsonSettled
    \/ urlDownloadSettled
    \/ urlArrayBufferSettled
    \/ urlReaderOnload
    \/ (nextFlow = 1 /\ startProcessing)
    \/ startProcessingTranslated
    \/ speechResponse
    \/ refreshVoiceSettled

ResultSpec == Init /\ [][ResultNext]_vars

(***************************************************************************)
(* The interval of the progress effect (App.tsx 59-70), which runs every   *)
(* 50 ms while step is a processing step, and ProgressSpec: the actions   *)
(* of PipelineNext with the ticks of the interval.                         *)
(***************************************************************************)
\* let target = 0; if (step === ...) target = ...
ProgressTarget(s) ==
    IF s = UPLOADING THEN Percent(10)
    ELSE IF s = ANALYZING THEN Percent(60)
    ELSE IF s = GENERATING_VOICE THEN Percent(95)
    ELSE Percent(0)

\* A plausible slip: the bar advances whatever the target is.
ProgressUpdaterNoTarget(prev, s) == prev + 1

\* setProgress(prev => prev < target ? prev + 0.5 : prev)
ProgressUpdater(prev, s) ==
    IF prev < ProgressTarget(s) THEN prev + 1 ELSE prev

\* one callback of the interval; a timer callback runs between events
intervalTick ==
    /\ step \notin {IDLE, COMPLETED, ERROR} /\ ~MicrotaskPending
    /\ progress' = ProgressUpdater(progress, step)
    /\ UNCHANGED <<step, videoVars, translatedText, errorMessage, flagVars, hasApiKey,
                   currentAudioBuffer, settings, flowVars, speechVars, audioVars, urlVars, mediaVars>>

MaxRuns == 2           \* pipeline runs started in one behaviour (ProgressSpec and later)

ProgressNext ==
    \/ handleFileUpload
    \/ readerOnload
    \/ onloadedmetadata
    \/ (nextFlow <= MaxRuns /\ startProcessing)
    \/ startProcessingTranslated
    \/ startProcessingTranslateFailed
    \/ speechDelayElapsed
    \/ speechResponse
    \/ refreshVoiceSettled
    \/ refreshVoice
    \/ handleCancel
    \/ handleStartOver
    \/ intervalTick

ProgressSpec == Init /\ [][ProgressNext]_vars

(***************************************************************************)
(* The preview of the dubbed audio (App.tsx 334-371).  The video element   *)
(* calls playTranslation on its play event and stopTranslation on its      *)
(* pause and seeking events, the preview button calls stopTranslation or   *)
(* video.play(); the state of the video element is not kept, so the two    *)
(* handlers may be called at any time in the completed view.               *)
(***************************************************************************)
MaxSources == 3        \* sources created in one behaviour

\* audioContextRef.current.createBufferSource(), started
NewSource == [state |-> "playing", eventPending |-> FALSE]

\* try { audioSourceRef.current.stop() } catch (e) { }: a source that plays
\* stops and its ended event is queued; on any other the call has no effect
StopSource(sources, ref) ==
    IF ref # 0 /\ sources[ref].state = "playing"
    THEN [sources EXCEPT ![ref] = [state |-> "finished", eventPending |-> TRUE]]
    ELSE sources

\* A plausible slip: the new source is started without stopping the old one.
StopPreviousNot(sources, ref) == sources

\* if (audioSourceRef.current) { try { audioSourceRef.current.stop() } ... }
StopPrevious(sources, ref) == StopSource(sources, ref)

\* playTranslation from line 341 on
StartSource ==
    /\ Len(audioSources) < MaxSources
    /\ audioSources' = Append(StopPrevious(audioSources, audioSourceRef), NewSource)
    /\ audioSourceRef' = Len(audioSources) + 1
    /\ isPlaying' = TRUE

\* playTranslation up to its await, or to its end when the context runs
playTranslation ==
    /\ ViewCompleted /\ ~MicrotaskPending
    /\ currentAudioBuffer # Null
    /\ IF audioContextState = "suspended"
       THEN /\ resumePending < MaxSources
            /\ resumePending' = resumePending + 1
            /\ UNCHANGED <<audioSources, audioSourceRef, isPlaying>>
       ELSE /\ StartSource
            /\ UNCHANGED resumePending
    /\ UNCHANGED <<audioContextState, exportVars, appVars, speechVars, audioVars, urlVars>>

\* audioContext.resume() has settled: the rest of playTranslation, or its
\* end when the promise was rejected
resumeSettled ==
    /\ resumePending > 0 /\ ~MicrotaskPending
    /\ resumePending' = resumePending - 1
    /\ \E resolved \in BOOLEAN :
          IF resolved
          THEN /\ audioContextState' = "running"
               /\ StartSource
          ELSE UNCHANGED <<audioContextState, audioSources, audioSourceRef, isPlaying>>
    /\ UNCHANGED <<exportVars, appVars, speechVars, audioVars, urlVars>>

\* a source has played its buffer to the end
sourceFinished ==
    /\ \E s \in 1..Len(audioSources) :
          /\ audioSources[s].state = "playing"
          /\ audioSources' = [audioSources EXCEPT ![s] =
                                 [state |-> "finished", eventPending |-> TRUE]]
    /\ UNCHANGED <<audioSourceRef, isPlaying, audioContextState, resumePending,
                   exportVars, appVars, speechVars, audioVars, urlVars>>

\* source.onended = () => { if (audioSourceRef.current === source) ... }
sourceOnended ==
    /\ ~MicrotaskPending
    /\ \E s \in 1..Len(audioSources) :
          /\ audioSources[s].eventPending
          /\ audioSources' = [audioSources EXCEPT ![s].eventPending = FALSE]
          /\ isPlaying' = IF audioSourceRef = s THEN FALSE ELSE isPlaying
    /\ UNCHANGED <<audioSourceRef, audioContextState, resumePending,
                   exportVars, appVars, speechVars, audioVars, urlVars>>

stopTranslation ==
    /\ ViewCompleted /\ ~MicrotaskPending
    /\ audioSources' = StopSource(audioSources, audioSourceRef)
    /\ audioSourceRef' = 0
    /\ isPlaying' = FALSE
    /\ UNCHANGED <<audioContextState, resumePending,
                   exportVars, appVars, speechVars, audioVars, urlVars>>

\* a browser creates the AudioContext of refreshVoice suspended or running,
\* as its autoplay policy decides
PlayInit ==
    /\ AppInit
    /\ speech = NoCall /\ cleanIn = <<>> /\ lastOutcome = Null
    /\ CleanIdle /\ UrlIdle /\ AudioIdle /\ ExportIdle
    /\ audioSources = <<>>
    /\ audioSourceRef = 0
    /\ isPlaying = FALSE
    /\ audioContextState \in {"suspended", "running"}
    /\ resumePending = 0

PlayNext ==
    \/ handleFileUpload
    \/ readerOnload
    \/ onloadedmetadata
    \/ (nextFlow <= MaxRuns /\ startProcessing)
    \/ startProcessingTranslated
    \/ speechResponse
    \/ refreshVoiceSettled
    \/ handleStartOver
    \/ playTranslation
    \/ resumeSettled
    \/ sourceFinished
    \/ sourceOnended
    \/ stopTranslation

PlaySpec == PlayInit /\ [][PlayNext]_vars

(***************************************************************************)
(* The export of the dubbed video (App.tsx 384-439).  exportPc is "idle",  *)
(* "seek" (line 393: waiting for the seeked event), "play" (line 431:      *)
(* waiting for video.play()), "recording", "stopping" (the recorder is     *)
(* inactive and its stop event is queued), "done" (onstop has run) or      *)
(* "failed" (the handler has thrown, or the event it waits for never       *)
(* comes).                                                                 *)
(***************************************************************************)
\* downloadVideo up to its first await; the overlay shown while isRecording
\* is true covers the button
downloadVideo ==
    /\ ViewCompleted /\ ~MicrotaskPending
    /\ currentAudioBuffer # Null
    /\ ~isRecording
    /\ isRecording' = TRUE
    /\ exportPc' = "seek"
    /\ UNCHANGED <<playVars, appVars, speechVars, audioVars, urlVars>>

\* what becomes of 'videoRef.current.currentTime = 0': the seeked event
\* arrives and lines 401-431 run ("play"), or captureStream or the
\* MediaRecorder constructor throws, or the element has no data to seek in
\* and the event never comes
SeekOutcomes == {"play", "failed"}

\* A failure changes nothing else: there is no try around lines 389-433 and
\* no error handler, and isRecording is set to false in recorder.onstop only.
exportSeekSettled ==
    /\ exportPc = "seek" /\ ~MicrotaskPending
    /\ \E o \in SeekOutcomes :
          exportPc' = o
    /\ UNCHANGED <<isRecording, playVars, appVars, speechVars, audioVars, urlVars>>

\* 'await videoRef.current.play()' has settled: recorder.start() and
\* source.start(), or the rejection (or a throw of recorder.start()) ends
\* the handler
exportPlaySettled ==
    /\ exportPc = "play" /\ ~MicrotaskPending
    /\ \E o \in {"recording", "failed"} :
          exportPc' = o
    /\ UNCHANGED <<isRecording, playVars, appVars, speechVars, audioVars, urlVars>>

\* source.onended: if (recorder.state === 'recording') recorder.stop()
exportSourceOnended ==
    /\ exportPc = "recording" /\ ~MicrotaskPending
    /\ exportPc' = "stopping"
    /\ UNCHANGED <<isRecording, playVars, appVars, speechVars, audioVars, urlVars>>

\* the recorder fails while recording: the browser makes it inactive and
\* fires its stop event
exportRecorderError ==
    /\ exportPc = "recording"
    /\ exportPc' = "stopping"
    /\ UNCHANGED <<isRecording, playVars, appVars, speechVars, audioVars, urlVars>>

\* recorder.onstop
recorderOnstop ==
    /\ exportPc = "stopping" /\ ~MicrotaskPending
    /\ isRecording' = FALSE
    /\ exportPc' = "done"
    /\ UNCHANGED <<playVars, appVars, speechVars, audioVars, urlVars>>

\* the overlay of lines 541-547 does not cover the page
Unblocked == ~isRecording

ExportNext ==
    \/ (Unblocked /\ handleFileUpload)
    \/ readerOnload
    \/ onloadedmetadata
    \/ (Unblocked /\ nextFlow <= MaxRuns /\ startProcessing)
    \/ startProcessingTranslated
    \/ speechResponse
    \/ refreshVoiceSettled
    \/ (Unblocked /\ handleStartOver)
    \/ downloadVideo
    \/ exportSeekSettled
    \/ exportPlaySettled
    \/ exportSourceOnended
    \/ exportRecorderError
    \/ recorderOnstop

ExportSpec == Init /\ [][ExportNext]_vars

\* every event the handler waits for arrives or fails, the buffer of the
\* export plays to its end, and the queued stop event is delivered
ExportFairness ==
    /\ WF_vars(exportSeekSettled)
    /\ WF_vars(exportPlaySettled)
    /\ WF_vars(exportSourceOnended)
    /\ WF_vars(recorderOnstop)

ExportFairSpec == ExportSpec /\ ExportFairness

(***************************************************************************)
(* SpeechSpec: one top-level call of generateThaiSpeech on every bounded   *)
(* text, under every sequence of API outcomes.                             *)
(***************************************************************************)
SpeechInit ==
    /\ AppInit
    /\ cleanIn \in TextsUpTo(MaxLen)
    /\ speech = NoCall
    /\ lastOutcome = Null
    /\ CleanIdle
    /\ UrlIdle /\ MediaIdle
    /\ AudioIdle

\* generateThaiSpeech(text, settings, duration) called by refreshVoice
SpeechCall ==
    /\ speech.phase = "none"
    /\ \E s \in SettingsSet, d \in Durations :
          speech' = generateThaiSpeech(cleanIn, s, d, 0, <<>>, <<>>)
    /\ UNCHANGED <<cleanIn, lastOutcome, cleanVars, appVars, audioVars, urlVars, mediaVars>>

SpeechDelay ==
    /\ speech.phase = "delay"
    /\ speech' = DelayElapsed(speech)
    /\ UNCHANGED <<cleanIn, lastOutcome, cleanVars, appVars, audioVars, urlVars, mediaVars>>

SpeechRespond ==
    /\ speech.phase = "request"
    /\ \E o \in Outcomes :
          /\ speech' = HandleResponse(speech, o)
          /\ lastOutcome' = Some(o)
    /\ UNCHANGED <<cleanIn, cleanVars, appVars, audioVars, urlVars, mediaVars>>

SpeechNext == SpeechCall \/ SpeechDelay \/ SpeechRespond

SpeechSpec == SpeechInit /\ [][SpeechNext]_vars

CleanInit ==
    /\ AppInit
    /\ cleanIn \in CleanInputs
    /\ speech = NoCall
    /\ lastOutcome = Null
    /\ CleanIdle
    /\ UrlIdle /\ MediaIdle
    /\ AudioIdle

CleanSpec == CleanInit /\ [][CleanNext]_vars

(***************************************************************************)
(* Claims about generateThaiSpeech, checked under SpeechSpec.              *)
(***************************************************************************)
SpeechRequests == Requests(speech)
SpeechFailedRateLimited ==
    /\ lastOutcome # Null
    /\ lastOutcome[1].throws
    /\ Includes(lastOutcome[1].message, "429") \/ Includes(lastOutcome[1].message, "quota")

\* C4: one top-level call of generateThaiSpeech issues at most 3 synthesis
\* requests, numbered 0, 1, 2 in that order whatever made each retry happen
\* (one counter for rate limits and finish reasons); the rejection of a
\* nested retry settles the whole call, and every response to attempt 2
\* settles it: its failure is the caller's failure.
C4_AtMostThreeRequests ==
    /\ [](/\ Len(SpeechRequests) <= 3
          /\ \A i \in 1..Len(SpeechRequests) : SpeechRequests[i].attempt = i - 1)
    /\ [][/\ (speech.phase = "request" /\ speech.retryAttempt = 2)
              => /\ Settled(speech')
                 /\ (lastOutcome'[1].throws \/ ~lastOutcome'[1].hasAudio
                     \/ lastOutcome'[1].finishReason = "SAFETY")
                        => speech'.phase = "rejected"
          /\ Settled(speech) => speech' = speech]_vars

C4_Witness ==
    /\ speech.phase = "rejected"
    /\ Len(SpeechRequests) = 3
    /\ SpeechFailedRateLimited
    /\ \E i \in 1..Len(speech.log) :
          speech.log[i].kind = "wait" /\ speech.log[i].attempt = 1

\* C5: a request at attempt n < 2 that fails with a rate-limit error ('429'
\* or 'quota' in the message) is followed by a wait and then a request at
\* attempt n+1 with the same text, settings and duration; the caller is
\* handed a rate-limit error only after three requests, the last at attempt 2.
C5_RateLimitRetried ==
    /\ [][(speech.phase = "request" /\ speech.retryAttempt < 2
           /\ lastOutcome' # lastOutcome /\ SpeechFailedRateLimited')
             => /\ speech'.phase = "delay"
                /\ speech'.retryAttempt = speech.retryAttempt + 1]_vars
    /\ [][speech.phase = "delay"
             => LET r == Requests(speech')
                    n == Len(r)
                IN /\ speech'.phase = "request"
                   /\ n = Len(SpeechRequests) + 1
                   /\ r[n].attempt = r[n - 1].attempt + 1
                   /\ r[n].text = r[n - 1].text
                   /\ r[n].settings = r[n - 1].settings
                   /\ r[n].duration = r[n - 1].duration]_vars
    /\ []((speech.phase = "rejected" /\ speech.result # Null
             /\ (Includes(speech.result[1].message, "429")
                 \/ Includes(speech.result[1].message, "quota")))
            => /\ Len(SpeechRequests) = 3
               /\ SpeechRequests[3].attempt = 2)

C5_Witness ==
    /\ speech.phase = "request"
    /\ speech.retryAttempt = 2
    /\ SpeechFailedRateLimited
    /\ cleanIn # speech.cleanedText

\* C6: the request of attempt 0 is issued without a wait; the request of
\* retry attempt 1 is issued right after a wait of 2000 ms and that of retry
\* attempt 2 right after a wait of 4000 ms; the waits of a call increase
\* strictly.
C6_ExponentialBackoff ==
    LET log == speech.log
        w == Waits(speech)
    IN /\ log # <<>> => (log[1].kind = "request" /\ log[1].attempt = 0)
       /\ \A i \in 1..Len(log) :
             /\ log[i].kind = "wait"
                  => /\ log[i].attempt \in {1, 2}
                     /\ log[i].attempt = 1 => log[i].ms = 2000
                     /\ log[i].attempt = 2 => log[i].ms = 4000
                     /\ i > 1 /\ log[i - 1].kind = "request"
             /\ (log[i].kind = "request" /\ log[i].attempt > 0)
                  => /\ i > 1
                     /\ log[i - 1].kind = "wait"
                     /\ log[i - 1].attempt = log[i].attempt
       /\ \A i, j \in 1..Len(w) : i < j => w[i].ms < w[j].ms
       /\ speech.phase = "delay" => log[Len(log)].kind = "wait"

C6_Witness ==
    /\ Len(Waits(speech)) = 2
    /\ Len(SpeechRequests) = 3

LiveRun(fl) == fl.kind = "run" /\ ~Aborted(fl)
LiveFlows == {f \in FlowIds : InFlight(f) /\ ~Aborted(flows[f])}

\* C1: a pipeline run that is not cancelled keeps step at ANALYZING while
\* its translation is awaited; when the translation returns, that step sets
\* translatedText to the result and enters GENERATING_VOICE, where step stays
\* while the run's refreshVoice is awaited; COMPLETED is entered exactly by
\* the step in which that refreshVoice has returned.  No other step enters
\* GENERATING_VOICE or COMPLETED.
C1_PipelineOrder ==
    /\ [](\A f \in FlowIds :
            LiveRun(flows[f])
              => /\ flows[f].pc = "translate" => step = ANALYZING
                 /\ flows[f].pc = "voice" => step = GENERATING_VOICE)
    /\ [][/\ (step' = GENERATING_VOICE /\ step # GENERATING_VOICE)
              => /\ step = ANALYZING
                 /\ \E f \in FlowIds :
                       /\ LiveRun(flows[f]) /\ flows[f].pc = "translate"
                       /\ flows'[f].pc = "voice"
                       /\ translatedText' = flows'[f].text
          /\ (step' = COMPLETED /\ step # COMPLETED)
              => /\ step = GENERATING_VOICE
                 /\ \E f \in FlowIds :
                       /\ LiveRun(flows[f]) /\ flows[f].pc = "voice"
                       /\ Settled(flows[f].call)
                       /\ flows'[f].pc = "done"
          /\ \A f \in FlowIds :
                /\ (LiveRun(flows[f]) /\ flows[f].pc = "translate"
                    /\ flows'[f].pc = "voice")
                     => (step' = GENERATING_VOICE /\ translatedText' = flows'[f].text)
                /\ (LiveRun(flows[f]) /\ flows[f].pc = "voice"
                    /\ flows'[f].pc = "done")
                     => step' = COMPLETED]_vars

C1_Witness ==
    /\ step = COMPLETED
    /\ translatedText = <<"a">>
    /\ currentAudioBuffer # Null
    /\ nextFlow = 2

\* C2: when the translation request of a run that was not cancelled fails,
\* that step sets step to ERROR and errorMessage to a message, issues no
\* synthesis request and leaves translatedText and currentAudioBuffer unchanged.
C2_TranslationFailure ==
    [][\A f \in FlowIds :
          (LiveRun(flows[f]) /\ flows[f].pc = "translate" /\ flows'[f].pc = "done")
            => /\ step' = ERROR
               /\ errorMessage' # Null
               /\ translatedText' = translatedText
               /\ currentAudioBuffer' = currentAudioBuffer
               /\ lastSynth' = lastSynth
               /\ flows'[f].call = NoCall]_vars

C2_Witness ==
    /\ step = ERROR
    /\ errorMessage = Some(MsgProcessingFailed)
    /\ flows[1].pc = "done"
    /\ nextFlow = 2

\* C3: when the speech synthesis of a refreshVoice call that was not
\* cancelled fails, then as refreshVoice finishes errorMessage is a message,
\* currentAudioBuffer is null and isRegenerating is false; the caller goes on
\* as after a success (a pipeline run enters COMPLETED).
C3_VoiceFailure ==
    [][\A f \in FlowIds :
          (flows[f].pc = "voice" /\ flows[f].call.phase = "rejected"
           /\ ~Aborted(flows[f]) /\ flows'[f].pc = "done")
            => /\ errorMessage' # Null
               /\ currentAudioBuffer' = Null
               /\ isRegenerating' = FALSE
               /\ flows[f].kind = "run" => step' = COMPLETED]_vars

\* C8: a non-null currentAudioBuffer is the audio returned to the flow that
\* started the latest synthesis request.
C8_LatestAudio ==
    currentAudioBuffer # Null => currentAudioBuffer[1].by = lastSynth

\* C9: at most one request flow that has not been cancelled is in flight.
C9_OneFlow == Cardinality(LiveFlows) <= 1

\* C10: handleFileUpload rejects every file larger than 50 * 1024 * 1024
\* bytes with the size message and leaves fileName, videoBase64,
\* videoMimeType, videoUrl and videoDuration (and the pending reads) as they
\* were, so no such file is ever read or becomes the video; a file of exactly
\* 50 * 1024 * 1024 bytes can be chosen wherever the upload is offered, and the
\* step that accepts a file clears errorMessage and sets fileName to its name.
AtLimitFile == CHOOSE file \in Files : file.size = 50 * 1024 * 1024
PendingLoads == Len(pendingReads) + Len(pendingMeta)
C10_FileSizeLimit ==
    /\ [](/\ \A i \in 1..Len(pendingReads) : pendingReads[i].size <= 50 * 1024 * 1024
          /\ \A i \in 1..Len(pendingMeta) : pendingMeta[i].size <= 50 * 1024 * 1024
          /\ videoBase64 # Null => videoBase64[1].size <= 50 * 1024 * 1024)
    /\ []((ViewIdle /\ ~MicrotaskPending /\ PendingLoads = 0)
            => ENABLED (handleFileUpload /\ pendingReads' = <<AtLimitFile>>))
    /\ [][/\ (errorMessage' = Some(MsgFileTooLarge) /\ errorMessage' # errorMessage)
              => UNCHANGED <<fileName, videoBase64, videoMimeType, videoUrl,
                             videoDuration, pendingReads, pendingMeta>>
          /\ Len(pendingReads') > Len(pendingReads)
              => /\ errorMessage' = Null
                 /\ fileName' = Some(pendingReads'[Len(pendingReads')].name)]_vars

C10_Witness ==
    /\ errorMessage = Some(MsgFileTooLarge)
    /\ videoBase64 # Null /\ videoBase64[1].size = 50 * 1024 * 1024
    /\ fileName = Some("limit.mov")
    /\ step = IDLE

(***************************************************************************)
(* Claims about resetting and the step machine, checked under Spec.        *)
(***************************************************************************)
\* C11: the step of handleStartOver (COMPLETED to IDLE) leaves step IDLE,
\* fileName, videoBase64, videoUrl and currentAudioBuffer null, translatedText
\* empty, errorMessage null and progress 0.  While videoBase64 is null, step
\* is and stays IDLE, no step starts a pipeline run or a synthesis request of
\* one, startProcessing can be called and only sets errorMessage: the step
\* that sets the select-a-video message changes nothing else.
C11_StartOverResets ==
    /\ [](videoBase64 = Null => step = IDLE)
    /\ []((videoBase64 = Null /\ ~MicrotaskPending)
            => ENABLED (startProcessing /\ errorMessage' = Some(MsgSelectVideo)))
    /\ [][/\ (step = COMPLETED /\ step' = IDLE)
              => /\ fileName' = Null /\ videoBase64' = Null /\ videoUrl' = Null
                 /\ currentAudioBuffer' = Null /\ translatedText' = <<>>
                 /\ errorMessage' = Null /\ progress' = 0
          /\ videoBase64 = Null
              => /\ step' = IDLE
                 /\ \A f \in FlowIds :
                       flows[f].kind # "run" => flows'[f].kind # "run"
          /\ (errorMessage' = Some(MsgSelectVideo) /\ errorMessage' # errorMessage)
              => /\ NoVideo
                 /\ UNCHANGED <<step, progress, videoVars, translatedText, flagVars,
                                hasApiKey, currentAudioBuffer, settings, flowVars>>]_vars

C11_Witness ==
    /\ step = IDLE /\ videoBase64 = Null /\ fileName = Null /\ videoUrl = Null
    /\ errorMessage = Some(MsgSelectVideo)
    /\ flows[1].pc = "done"

(***************************************************************************)
(* Claims about the PCM and WAV conversions, checked under AudioSpec.      *)
(***************************************************************************)
WavFrames == audioBuffer[1].length
WavChannels == audioBuffer[1].numberOfChannels

\* C12: for a buffer of F frames and C channels the result of
\* audioBufferToWav has 44 + 2*F*C bytes, RIFF size (offset 4) length - 8,
\* data size (offset 40) 2*F*C, byte rate (offset 28) sampleRate*2*C and block
\* align (offset 32) 2*C.  Every pass of the loop writes C samples, the loop
\* is left after exactly F*C samples, no read is past frame F-1, and the
\* sample stored for frame o of channel i is the value computed for it, which
\* is within [-32768, 32767].
C12_WavWellFormed ==
    /\ [](wav.pc \in {"loop", "done"}
            => /\ Len(wav.view) = 44 + 2 * WavFrames * WavChannels
               /\ wav.length = Len(wav.view)
               /\ U32At(wav.view, 4) = Len(wav.view) - 8
               /\ U32At(wav.view, 40) = 2 * WavFrames * WavChannels
               /\ U32At(wav.view, 28) = audioBuffer[1].sampleRate * 2 * WavChannels
               /\ U16At(wav.view, 32) = 2 * WavChannels
               /\ U16At(wav.view, 22) = WavChannels
               /\ wav.pos = 44 + 2 * wav.written
               /\ wav.written = wav.offset * WavChannels
               /\ wav.written <= WavFrames * WavChannels
               /\ ~wav.readPast)
    /\ [](wav.pc = "done"
            => /\ wav.written = WavFrames * WavChannels
               /\ \A o \in 0..(WavFrames - 1), i \in 1..WavChannels :
                     LET sample == EncodeSample(audioBuffer[1].channels[i][o + 1])
                     IN /\ sample >= -32768 /\ sample <= 32767
                        /\ I16At(wav.view, 44 + 2 * (o * WavChannels + i - 1)) = sample)
    /\ [][wav.pc = "loop"
            => (wav'.written = wav.written + WavChannels \/ wav'.pc = "done")]_vars

C12_Witness ==
    /\ wav.pc = "done"
    /\ pcmData = Null
    /\ WavFrames = 2 /\ WavChannels = 2
    /\ audioBuffer[1].channels[2][2] = -40000
    /\ I16At(wav.view, 50) = -32768
    /\ Len(wav.view) = 52

PcmLength == Len(pcmData[1])
DecodeStep == pcmData # Null /\ audioBuffer = Null /\ wav.pc = "idle"
\* the buffer b holds the n \div 2 samples of the bytes of pcmData, low byte
\* first, as numerators over 32768
DecodedFrom(b) ==
    /\ b.numberOfChannels = 1
    /\ b.length = PcmLength \div 2
    /\ Len(b.channels[1]) = b.length
    /\ \A i \in 0..(b.length - 1) :
          LET lo == pcmData[1][2 * i + 1]
              hi == pcmData[1][2 * i + 2]
              v == IF hi >= 128 THEN lo + 256 * hi - 65536 ELSE lo + 256 * hi
          IN /\ b.channels[1][i + 1] = v
             /\ -SampleScale <= v /\ v < SampleScale

\* C13 as stated: decodePCMData with one channel turns every input of n
\* bytes into a buffer of floor(n/2) frames, frame i being the signed 16-bit
\* integer of bytes 2i and 2i+1 over 32768, within [-1, 1).
C13_DecodeEveryInput ==
    [][DecodeStep => (audioBuffer' # Null /\ DecodedFrom(audioBuffer'[1]))]_vars

\* C13, amended: that holds for every input of n >= 2 bytes (a trailing odd
\* byte is ignored); for n < 2 the buffer would have no frames, createBuffer
\* throws and decodePCMData returns no buffer.
C13_DecodeAmended ==
    /\ []((pcmData # Null /\ audioBuffer # Null)
            => (PcmLength >= 2 /\ DecodedFrom(audioBuffer[1])))
    /\ [][DecodeStep
            => /\ PcmLength >= 2 => audioBuffer' # Null
               /\ PcmLength < 2 => (audioBuffer' = Null /\ wav'.pc = "decode failed")]_vars

C13_Witness ==
    /\ pcmData = Some(<<0, 128, 255>>)
    /\ audioBuffer # Null
    /\ audioBuffer[1].channels = <<(<<-32768>>)>>

\* C14: decoding followed by re-encoding is lossless: once a decoded PCM
\* input has been exported, the data section of the WAV holds the bytes of
\* the PCM samples received.
C14_RoundTripLossless ==
    (wav.pc = "done" /\ pcmData # Null)
      => \A j \in 1..(2 * WavFrames) : wav.view[44 + j] = pcmData[1][j]

(***************************************************************************)
(* Claims about the step machine and cancellation, checked under Spec.     *)
(***************************************************************************)
StepTransitions ==
    {<<IDLE, ANALYZING>>, <<ERROR, ANALYZING>>, <<ANALYZING, GENERATING_VOICE>>,
     <<ANALYZING, ERROR>>, <<GENERATING_VOICE, COMPLETED>>, <<ANALYZING, IDLE>>,
     <<GENERATING_VOICE, IDLE>>, <<COMPLETED, IDLE>>}

\* C15: every change of step is one of IDLE or ERROR to ANALYZING, ANALYZING
\* to GENERATING_VOICE, ANALYZING to ERROR, GENERATING_VOICE to COMPLETED,
\* ANALYZING or GENERATING_VOICE to IDLE, COMPLETED to IDLE; step is never
\* UPLOADING or TRANSLATING, and GENERATING_VOICE is never followed by ERROR.
C15_StepTransitions ==
    /\ [](step \in ProcessingStep \ {UPLOADING, TRANSLATING})
    /\ [][/\ step' # step => <<step, step'>> \in StepTransitions
          /\ step = GENERATING_VOICE => step' # ERROR]_vars

\* a run whose synthesis failed has left GENERATING_VOICE for COMPLETED
C15_Witness ==
    /\ step = COMPLETED
    /\ errorMessage = Some(MsgVoiceFailed)
    /\ currentAudioBuffer = Null
    /\ nextFlow = 2

CancelledRun(fl) ==
    fl.kind = "run" /\ fl.aborted /\ fl.pc \in {"translate", "voice"}

\* C17: a step of a cancelled pipeline run (a response or an error delivered
\* to it, a retry of its synthesis, its return) leaves step, translatedText,
\* currentAudioBuffer and errorMessage unchanged, whatever other run is in
\* flight.
C17_CancelledRunSilent ==
    [][\A f \in FlowIds :
          (CancelledRun(flows[f]) /\ flows'[f] # flows[f])
            => UNCHANGED <<step, translatedText, currentAudioBuffer, errorMessage>>]_vars

\* the cancelled first run has returned on a failed synthesis while the
\* second run holds the step and the text
C17_Witness ==
    /\ flows[1].pc = "done"
    /\ flows[1].kind = "none"
    /\ LiveRun(flows[2]) /\ flows[2].pc = "voice"
    /\ flows[2].call.phase = "request"
    /\ lastSynth = 2
    /\ step = GENERATING_VOICE
    /\ isRegenerating = FALSE

\* the pipeline runs in flight whose controller has not been aborted
LiveRuns ==
    {f \in FlowIds : flows[f].kind = "run" /\ InFlight(f) /\ ~flows[f].aborted}

\* C18: at most one pipeline run that has not been cancelled is in flight;
\* in IDLE and ERROR none is; a run starts only from IDLE or ERROR.
C18_OneLiveRun ==
    /\ [](Cardinality(LiveRuns) <= 1)
    /\ [](ViewIdle => LiveRuns = {})
    /\ [][\A f \in FlowIds :
             (flows[f].kind # "run" /\ flows'[f].kind = "run")
               => (ViewIdle /\ LiveRuns = {} /\ LiveRuns' = {f})]_vars

\* a second run is in flight while the first, cancelled, has not returned
C18_Witness ==
    /\ flows[1].kind = "run" /\ InFlight(1) /\ flows[1].aborted
    /\ LiveRuns = {2}
    /\ step = ANALYZING

(***************************************************************************)
(* Claims about termination, checked under FairSpec.                       *)
(***************************************************************************)
\* C19: when every request returns or fails, step does not stay in ANALYZING
\* or GENERATING_VOICE forever: from either, COMPLETED, ERROR or IDLE follows.
C19_RunLeavesProcessing ==
    (step \in {ANALYZING, GENERATING_VOICE}) ~> (step \in {COMPLETED, ERROR, IDLE})

\* the first run, started and never cancelled, has left the processing
\* phases with its audio
C19_Witness ==
    /\ step = COMPLETED
    /\ currentAudioBuffer # Null
    /\ currentAudioBuffer[1].by = 1
    /\ nextFlow = 2
    /\ flows[1].pc = "done"
    /\ lastSynth = 1

(***************************************************************************)
(* Claims about the network activity of a cancelled run, checked under     *)
(* Spec.                                                                   *)
(***************************************************************************)
\* C20: once handleCancel has aborted a pipeline run, no step of that run
\* issues a request: its synthesis call sends nothing more, retries included.
C20_CancelStopsRequests ==
    [][\A f \in FlowIds :
          (CancelledRun(flows[f]) /\ flows'[f].pc = "voice")
            => Requests(flows'[f].call) = Requests(flows[f].call)]_vars

(***************************************************************************)
(* Claims about cancelling, checked under Spec.                            *)
(***************************************************************************)
\* C21: handleCancel, the step from a processing phase to IDLE, can be taken
\* in every processing phase and leaves errorMessage null, progress 0,
\* isHooking, isIsanHooking and isRegenerating false and currentAudioBuffer
\* null; videoBase64, videoMimeType, videoUrl, fileName, videoDuration,
\* translatedText and settings keep their values.
C21_CancelReady ==
    /\ []((ViewProcessing /\ ~MicrotaskPending) => ENABLED (handleCancel /\ step' = IDLE))
    /\ [][(ViewProcessing /\ step' = IDLE)
            => /\ errorMessage' = Null
               /\ progress' = 0
               /\ ~isHooking' /\ ~isIsanHooking' /\ ~isRegenerating'
               /\ currentAudioBuffer' = Null
               /\ UNCHANGED <<videoBase64, videoMimeType, videoUrl, fileName,
                              videoDuration, translatedText, settings>>]_vars

\* cancelled during the synthesis of a run started from ERROR: the text and
\* the video are kept, the message of the failed run is gone
C21_Witness ==
    /\ step = IDLE
    /\ errorMessage = Null
    /\ flows[1].pc = "done"
    /\ flows[2].kind = "run" /\ flows[2].aborted /\ flows[2].pc = "voice"
    /\ translatedText # <<>>
    /\ videoBase64 # Null
    /\ nextFlow = 3

(***************************************************************************)
(* Claims about the failures of generateThaiSpeech, checked under          *)
(* SpeechSpec.                                                             *)
(***************************************************************************)
\* the response the request in flight has just received
SpeechAnswered == speech.phase = "request" /\ speech' # speech

\* C22: at every attempt number, a request that throws an error whose message
\* has neither '429' nor 'quota' rejects the call with that error, and a
\* response that passes the finish-reason test and carries no audio rejects
\* it with the no-audio error; neither is followed by a wait or a request.
C22_NoRetryOnOtherFailures ==
    [][SpeechAnswered
         => LET o == lastOutcome'[1]
            IN /\ (/\ o.throws
                   /\ ~Includes(o.message, "429") /\ ~Includes(o.message, "quota"))
                    => /\ speech'.phase = "rejected"
                       /\ speech'.result = Some(Error(o.message))
                       /\ speech'.log = speech.log
               /\ (~o.throws /\ o.finishReason \in {"", "STOP"} /\ ~o.hasAudio)
                    => /\ speech'.phase = "rejected"
                       /\ speech'.result = Some(Error(MsgNoAudio))
                       /\ speech'.log = speech.log]_vars

\* the retry at attempt 1 was answered without audio: rejected after two
\* requests
C22_Witness ==
    /\ speech.phase = "rejected"
    /\ speech.result = Some(Error(MsgNoAudio))
    /\ Len(SpeechRequests) = 2
    /\ lastOutcome = Some([throws |-> FALSE, message |-> <<>>,
                           finishReason |-> "STOP", hasAudio |-> FALSE])

(***************************************************************************)
(* Claims about an empty text, checked under Spec.                         *)
(***************************************************************************)
\* C23: a generateThaiSpeech call on a text that is empty after cleaning is
\* rejected with the no-text error, with no wait and no request in its log.
\* A pipeline run that is not cancelled and whose translation is empty sets
\* translatedText to the empty text and becomes the latest synthesis request
\* of no one; when it returns, errorMessage is the no-text message and
\* currentAudioBuffer is null.
C23_EmptyTextNoRequest ==
    /\ [](\A f \in FlowIds :
             (flows[f].pc = "voice" /\ flows[f].call.cleanedText = <<>>)
               => /\ flows[f].call.phase = "rejected"
                  /\ flows[f].call.result = Some(Error(MsgNoText))
                  /\ flows[f].call.log = <<>>)
    /\ [][\A f \in FlowIds :
             /\ (LiveRun(flows[f]) /\ flows[f].pc = "translate"
                 /\ flows'[f].pc = "voice" /\ translatedText' = <<>>)
                  => /\ flows'[f].call.cleanedText = <<>>
                     /\ lastSynth' = lastSynth
             /\ (LiveRun(flows[f]) /\ flows[f].pc = "voice"
                 /\ flows[f].text = <<>> /\ flows'[f].pc = "done")
                  => /\ errorMessage' = Some(MsgNoText)
                     /\ currentAudioBuffer' = Null]_vars

\* the first run has returned from an empty translation: completed with the
\* no-text message, and no synthesis request was ever made
C23_Witness ==
    /\ flows[1].pc = "done"
    /\ nextFlow = 2
    /\ translatedText = <<>>
    /\ step = COMPLETED
    /\ errorMessage = Some(MsgNoText)
    /\ currentAudioBuffer = Null
    /\ lastSynth = 0

(***************************************************************************)
(* Claims about cleanTextForSpeech, checked under CleanSpec.               *)
(***************************************************************************)
\* the input after the replacements and the trim, before the length test
Sanitized ==
    Trim(CollapseWhitespace(RemoveQuotes(BracketsToSpace(RemoveMarkdown(cleanIn)))))

\* C24: when the sanitized text has more than 800 characters the result has
\* exactly 800: the first 797 of the sanitized text, then three full stops;
\* a sanitized text of 800 characters or fewer is the result.
C24_LengthLimit ==
    cleaned # Null
      => LET result == cleaned[1]
         IN IF Len(Sanitized) > 800
            THEN /\ Len(result) = 800
                 /\ \A i \in 1..797 : result[i] = Sanitized[i]
                 /\ \A i \in 798..800 : result[i] = "."
            ELSE result = Sanitized

\* a text of 801 characters after sanitizing, cut behind a space
C24_Witness ==
    /\ cleaned # Null
    /\ Len(Sanitized) = 801
    /\ Len(cleaned[1]) = 800
    /\ cleaned[1][797] = " "
    /\ recleaned = Null

\* C25: cleaning a cleaned text gives the same text, so a retry, which cleans
\* the text it is handed, sends the text of the first attempt.
C25_Idempotent ==
    recleaned # Null => recleaned = cleaned

\* a text that was cut to the limit has been cleaned again
C25_Witness ==
    /\ recleaned # Null
    /\ Len(cleanIn) > 800
    /\ Len(recleaned[1]) = 800
    /\ recleaned[1][797] = " "

(***************************************************************************)
(* Claims about the hooks, checked under Spec.                             *)
(***************************************************************************)
\* flow f is a hook whose request has resolved in this step and whose
\* controller was not aborted
HookSucceeds(f) ==
    /\ flows[f].pc = "hook" /\ ~flows[f].aborted
    /\ flows'[f].pc = "done"
    /\ errorMessage' = errorMessage
    /\ \E apiText \in HookTexts :
          translatedText' = cleanTextForSpeech(IF apiText # <<>> THEN apiText
                                               ELSE flows[f].text)

\* C26: the step that starts applyAIHook or applyIsanHook leaves
\* currentAudioBuffer null; in the step in which the rewrite succeeds
\* translatedText becomes the hook text and currentAudioBuffer is null.
C26_HookInvalidatesAudio ==
    [][\A f \in FlowIds :
          /\ (flows[f].pc # "hook" /\ flows'[f].pc = "hook")
               => currentAudioBuffer' = Null
          /\ HookSucceeds(f) => currentAudioBuffer' = Null]_vars

\* flow f is a hook whose request has failed in this step
HookFails(f) ==
    /\ flows[f].pc = "hook"
    /\ flows'[f].pc = "done"
    /\ translatedText' = translatedText
    /\ \E m \in AppApiMessages :
          errorMessage' = Some(MessageOr(Error(m),
                                         IF flows[f].kind = "hook" THEN MsgHookFailed
                                         ELSE MsgIsanHookFailed))

\* C27: when the request of applyAIHook or applyIsanHook fails, translatedText
\* and settings are what they were when the action started, errorMessage is
\* set and the action's busy flag is false.
C27_FailedHookKeepsInputs ==
    [][\A f \in FlowIds :
          HookFails(f)
            => /\ translatedText' = flows[f].text
               /\ settings' = flows[f].settings
               /\ errorMessage' # Null
               /\ flows[f].kind = "hook" => ~isHooking'
               /\ flows[f].kind = "isan" => ~isIsanHooking']_vars

(***************************************************************************)
(* Claims about the API key, checked under Spec.                           *)
(***************************************************************************)
\* flow f, not cancelled, returns from refreshVoice in this step
VoiceDelivered(f) ==
    /\ flows[f].pc = "voice" /\ Settled(flows[f].call)
    /\ ~(flows[f].hasController /\ flows[f].aborted)
    /\ flows'[f].pc = "done"

UrlFetchEnds == urlFetch.pc \notin {"idle", "done"} /\ urlFetch'.pc = "done"

\* C29: when handleUrlFetch returns with errorMessage set, videoBase64,
\* videoMimeType, videoUrl and fileName are what they were when it was
\* called; the call with an empty field changes none of them either.
C29_FailedImportKeepsVideo ==
    [][/\ (UrlFetchEnds /\ errorMessage' # Null)
            => <<videoBase64', videoMimeType', videoUrl', fileName'>> = urlFetch.before
       /\ (errorMessage' = Some(MsgEnterUrl) /\ errorMessage' # errorMessage)
            => UNCHANGED <<videoBase64, videoMimeType, videoUrl, fileName>>]_vars

\* C30: isFetchingUrl is true only while an invocation of handleUrlFetch is
\* in progress; the invocation sets it when the field is not empty and every
\* return of the invocation leaves it false; with an empty field the call
\* can be made and changes errorMessage alone; when every request returns or
\* fails isFetchingUrl does not stay true.
C30_FetchingFlag ==
    /\ [](isFetchingUrl => urlFetch.pc \notin {"idle", "done"})
    /\ []((ViewIdle /\ ~isFetchingUrl /\ videoUrlInput = <<>>)
            => ENABLED (handleUrlFetch /\ errorMessage' = Some(MsgEnterUrl)))
    /\ [][/\ (urlFetch.pc \in {"idle", "done"} /\ urlFetch'.pc = "post")
               => (videoUrlInput # <<>> /\ isFetchingUrl')
          /\ UrlFetchEnds => ~isFetchingUrl'
          /\ (errorMessage' = Some(MsgEnterUrl) /\ errorMessage' # errorMessage)
               => /\ videoUrlInput = <<>>
                  /\ UNCHANGED <<step, progress, videoVars, translatedText, flagVars,
                                 hasApiKey, currentAudioBuffer, settings, flowVars,
                                 urlVars>>]_vars
    /\ isFetchingUrl ~> ~isFetchingUrl

\* the second import has failed on the last endpoint of the last instance,
\* after the first delivered its video
C30_Witness ==
    /\ imports = 2
    /\ urlFetch.pc = "done"
    /\ urlFetch.api = ApiInstances /\ urlFetch.endpoint = EndpointsPerInstance
    /\ ~isFetchingUrl
    /\ errorMessage = Some(MsgCannotDownload)
    /\ videoBase64 # Null

(***************************************************************************)
(* Claims about the selected video, checked under VideoSpec and Spec.      *)
(***************************************************************************)
\* no read of a file or blob and no import is on its way
SelectionSettled ==
    pendingReads = <<>> /\ urlFetch.pc \in {"idle", "done"}

\* the four fields are those of the one video v, or no video is held
DescribesOneVideo ==
    \/ videoBase64 = Null /\ videoMimeType = Null /\ videoUrl = Null
    \/ \E v \in Files \cup {Blob(n, t) : n \in DownloadSizes, t \in ContentTypes} :
          /\ videoBase64 = Some(v)
          /\ videoMimeType = Some(v.type)
          /\ videoUrl = Some(ObjectUrl(v))
          /\ fileName # Null
          /\ IF v \in Files THEN fileName = Some(v.name)
             ELSE fileName[1][1] = "URL: "

\* C31: once every read and import has completed, fileName, videoBase64,
\* videoMimeType and videoUrl are those of one video, whatever the order in
\* which the selections and the completions took place.
C31_OneVideo ==
    (SelectionSettled /\ errorMessage = Null) => DescribesOneVideo

\* the pipeline run f returns in this step and sets step to COMPLETED
RunCompletes(f) ==
    /\ flows[f].kind = "run" /\ flows[f].pc = "voice" /\ flows'[f].pc = "done"
    /\ ~Aborted(flows[f])
    /\ step' = COMPLETED

\* C32: when a pipeline run sets step to COMPLETED, the video it sent to
\* translateVideoContent is the one held in videoBase64 and shown through
\* videoUrl, also when a read completed while the run was in progress.
C32_ResultOfShownVideo ==
    [][\A f \in FlowIds :
          RunCompletes(f)
            => /\ videoBase64' = flows[f].video
               /\ videoUrl' = Some(ObjectUrl(flows[f].video[1]))]_vars

(***************************************************************************)
(* Claim about the progress bar, checked under ProgressSpec.               *)
(***************************************************************************)
\* C33: progress is between 0 and 100; it is at most 60 while step is
\* ANALYZING and at most 95 while step is GENERATING_VOICE; it is 100 only
\* while step is COMPLETED and 0 while step is IDLE or ERROR; in a processing
\* step it changes only by rising by 0.5, and no step from ANALYZING or
\* GENERATING_VOICE to GENERATING_VOICE or COMPLETED lowers it.
C33_ProgressBounds ==
    /\ [](progress \in Percent(0)..Percent(100))
    /\ [](step = ANALYZING => progress <= Percent(60))
    /\ [](step = GENERATING_VOICE => progress <= Percent(95))
    /\ [](progress = Percent(100) => step = COMPLETED)
    /\ [](step \in {IDLE, ERROR} => progress = Percent(0))
    /\ [][/\ (step' \in {ANALYZING, GENERATING_VOICE} /\ progress' # progress
              /\ step' = step)
               => progress' = progress + 1
          /\ (step \in {ANALYZING, GENERATING_VOICE}
              /\ step' \in {GENERATING_VOICE, COMPLETED})
               => progress' >= progress]_vars

\* the interval has brought the bar to 95 while the voice is awaited
C33_Witness ==
    /\ step = GENERATING_VOICE
    /\ progress = Percent(95)

(***************************************************************************)
(* Claim about the preview of the dubbed audio, checked under PlaySpec.    *)
(***************************************************************************)
PlayingSources == {s \in 1..Len(audioSources) : audioSources[s].state = "playing"}

\* the source audioSourceRef holds plays, or has finished and its ended
\* event has not been handled yet
CurrentAudible ==
    /\ audioSourceRef # 0
    /\ \/ audioSources[audioSourceRef].state = "playing"
       \/ audioSources[audioSourceRef].eventPending

\* C34: at most one source plays and it is the one audioSourceRef holds;
\* isPlaying is true exactly when that source plays or its ended event is
\* still to be handled; the step that starts a source leaves no older source
\* playing, the step of stopTranslation leaves audioSourceRef null, isPlaying
\* false and nothing playing, and the ended event of a source that is not
\* the current one leaves isPlaying as it is.
C34_OnePreviewSource ==
    /\ [](Cardinality(PlayingSources) <= 1)
    /\ [](PlayingSources \subseteq {audioSourceRef})
    /\ [](isPlaying <=> CurrentAudible)
    /\ [][/\ Len(audioSources') > Len(audioSources)
               => /\ PlayingSources' = {Len(audioSources')}
                  /\ audioSourceRef' = Len(audioSources')
                  /\ isPlaying'
          /\ (audioSourceRef # 0 /\ audioSourceRef' = 0)
               => (~isPlaying' /\ PlayingSources' = {})
          /\ \A s \in 1..Len(audioSources) :
                (audioSources[s].eventPending /\ ~audioSources'[s].eventPending
                 /\ audioSourceRef # s)
                  => isPlaying' = isPlaying]_vars

\* the ended event of a replaced source has been handled while its
\* successor plays
C34_Witness ==
    /\ Len(audioSources) >= 2
    /\ audioSources[1] = [state |-> "finished", eventPending |-> FALSE]
    /\ audioSourceRef = 2
    /\ audioSources[2].state = "playing"
    /\ isPlaying

(***************************************************************************)
(* Claim about the export of the dubbed video, checked under               *)
(* ExportFairSpec.                                                         *)
(***************************************************************************)
\* C35: whenever isRecording is true it is false again later, whatever the
\* seek, the playback and the recorder do.
C35_RecordingEnds ==
    isRecording ~> ~isRecording

=============================================================================
